---- MODULE Spec2Model ----
(***************************************************************************)
(* AutoCost: raw materials with a cost, products mixed from raw materials  *)
(* by percentage plus an additional cost, and the stored totalCost of a    *)
(* product.  The store is the relational schema of the Prisma migrations;  *)
(* the operations are the Express handlers of the raw-materials and the    *)
(* products controllers.                                                   *)
(*                                                                         *)
(* The repository holds several revisions of both controllers.  Each       *)
(* revision is modelled by its own handlers and its own specification:     *)
(*   Spec            raw-materials.controller.ts:1-111 with                *)
(*                   products.controller.ts:125-298 (recalculation         *)
(*                   trigger, deletion rejected while referenced)          *)
(*   SpecStoreFaults the handlers of Spec when a store call may reject     *)
(*   SpecConcurrent  the cost update of Spec, one step per store call      *)
(*   SpecNoTrigger   part_007:407-508 with products.controller.ts:1-123    *)
(*   SpecLegacy      raw-materials.controller.ts:113-306 with part_006     *)
(*   SpecTransactional  part_007:28-405 with part_005 (cascade delete in   *)
(*                   a transaction)                                        *)
(*   SpecDeleteRace  the delete of Spec racing a product creation, one     *)
(*                   step per store call                                   *)
(*   SpecCreateRace, SpecCreateRacePart007  concurrent creations of raw    *)
(*                   materials, raw-materials.controller.ts:5-28 and       *)
(*                   part_007:141-186, one step per store call             *)
(*   SpecReadDuringUpdate  SpecConcurrent with the product listing         *)
(*   SpecRecalculate the three recalculation functions on their own        *)
(*   SpecValidation  the product creations behind createProductSchema      *)
(*   SpecListing     the product listings, with the creation order kept    *)
(*   SpecCreateUpdateRace  a product creation of Spec racing a cost        *)
(*                   update, one step per store call                       *)
(*                                                                         *)
(* Numbers: costs, percentages and totals are exact decimals.  The value   *)
(* sets below make every percentage/100 x cost an integer, so \div is the  *)
(* exact quotient.                                                         *)
(***************************************************************************)
EXTENDS Integers, Sequences, FiniteSets, TLC

\* ------------------------------------------------------------ input values
\* Two tenants.  The handlers treat all tenants alike, so the second one is
\* given the smaller vocabulary: A names two raw materials and two products,
\* B one of each.  The rows of a table are bounded by its unique key.
Users == {"A", "B"}
MaterialNames == {"Flour", "Sugar"}
ProductNames == {"Cake", "Bread"}
MaterialNamesOf(userId) == IF userId = "A" THEN MaterialNames ELSE {"Flour"}
ProductNamesOf(userId) == IF userId = "A" THEN ProductNames ELSE {"Cake"}
Costs == {0, 100, 200}              \* request bodies; 0 is not positive
AdditionalCosts == {10}
Percentages == {30, 70, 100}

\* Ids are opaque and unique.  The model names a row by the position of its
\* unique key (userId, name), which the unique indexes of both tables make
\* injective over the rows stored; 0 is no id.
UserOrder == <<"A", "B">>
MaterialNameOrder == <<"Flour", "Sugar">>
ProductNameOrder == <<"Cake", "Bread">>
IndexIn(seq, x) == CHOOSE k \in 1..Len(seq) : seq[k] = x
RawMaterialIdOf(userId, name) ==
  (IndexIn(UserOrder, userId) - 1) * Len(MaterialNameOrder)
  + IndexIn(MaterialNameOrder, name)
ProductIdOf(userId, name) ==
  (IndexIn(UserOrder, userId) - 1) * Len(ProductNameOrder)
  + IndexIn(ProductNameOrder, name)
\* the ids a request can name: those of the rows that can be stored; an id
\* whose row is not stored (yet, or any more) is an id that does not exist
RawMaterialIds ==
  UNION {{RawMaterialIdOf(userId, name) : name \in MaterialNamesOf(userId)} :
           userId \in Users}
ProductIds ==
  UNION {{ProductIdOf(userId, name) : name \in ProductNamesOf(userId)} :
           userId \in Users}

\* db: the tables; last: the request answered last and its reply;
\* requests: the requests in flight, each between two of its store calls
VARIABLES db, last, requests

vars == <<db, last, requests>>

\* ------------------------------------------------------------------ helpers
Abs(x) == IF x < 0 THEN -x ELSE x

RECURSIVE SumSet(_, _)
\* sum of f[x] over the finite set S
SumSet(S, f) ==
  IF S = {} THEN 0
  ELSE LET x == CHOOSE y \in S : TRUE IN f[x] + SumSet(S \ {x}, f)

RECURSIVE SumSeq(_)
SumSeq(s) == IF s = <<>> THEN 0 ELSE Head(s) + SumSeq(Tail(s))

\* ------------------------------------------------------------ store (schema)
\* db.rawMaterial       rows [id, name, cost, userId]
\* db.product           rows [id, name, additionalCost, totalCost, userId]
\* db.productIngredient rows [productId, rawMaterialId, percentage]
EmptyDb == [rawMaterial |-> {}, product |-> {}, productIngredient |-> {}]

IngredientsOf(d, productId) ==
  {i \in d.productIngredient : i.productId = productId}

RawMaterialById(d, id) == CHOOSE m \in d.rawMaterial : m.id = id

\* ProductIngredient_rawMaterialId_fkey / ProductIngredient_productId_fkey:
\* ON DELETE CASCADE removes the links of a deleted row
CascadeDelete(d) ==
  [d EXCEPT !.productIngredient =
     {i \in @ : /\ \E p \in d.product : p.id = i.productId
                /\ \E m \in d.rawMaterial : m.id = i.rawMaterialId}]

\* the cost formula of the data model, over the rows currently stored
DerivedTotalCost(d, p) ==
  p.additionalCost
  + SumSet(IngredientsOf(d, p.id),
           [i \in IngredientsOf(d, p.id) |->
              (RawMaterialById(d, i.rawMaterialId).cost * i.percentage) \div 100])

\* ------------------------------------------------------------- responses
\* status and message of the JSON reply; named: the id the message names;
\* id, totalCost: the row returned in the body
Response(status, message, named, id, totalCost) ==
  [status |-> status, message |-> message, named |-> named, id |-> id,
   totalCost |-> totalCost]

\* a reply without a row in its body
Reply(status, message) == Response(status, message, 0, 0, -1)

InternalServerError == Reply(500, "Internal server error")

\* validate(schema): 400 with the list of zod errors
ValidationErrors == Reply(400, "errors")


\* ------------------------------------------------------------- requests
IngredientInputs == [rawMaterialId : RawMaterialIds, percentage : Percentages]

IngredientLists ==
  {<<>>} \cup [1..1 -> IngredientInputs] \cup [1..2 -> IngredientInputs]

Outcome(d, resp) == [db |-> d, resp |-> resp]

\* ------------------------------------------------- validation (zod schemas)
\* raw-materials.validation.ts: name min(1), cost positive
createRawMaterialSchema(body) == body.name # "" /\ body.cost > 0

\* raw-materials.validation.ts: cost positive
updateRawMaterialSchema(body) == body.cost > 0

\* a faulty variant of ingredientSchema: no lower bound on the percentage
ingredientSchemaNoMin(ing) == ing.percentage <= 100

\* products.validation.ts: percentage positive, at most 100
ingredientSchema(ing) == ing.percentage > 0 /\ ing.percentage <= 100

\* products.validation.ts: name min(1), additionalCost nonnegative,
\* ingredients a nonempty array of ingredientSchema
createProductSchema(body) ==
  /\ body.name # ""
  /\ body.additionalCost >= 0
  /\ Len(body.ingredients) > 0
  /\ \A k \in 1..Len(body.ingredients) : ingredientSchema(body.ingredients[k])

\* ------------------------------------------------------- store statements
\* prisma.rawMaterial.updateMany({ where: { id, userId }, data: { cost } })
rawMaterialUpdateMany(d, id, userId, cost) ==
  [d EXCEPT !.rawMaterial =
     {IF m.id = id /\ m.userId = userId THEN [m EXCEPT !.cost = cost] ELSE m : m \in @}]

\* prisma.rawMaterial.deleteMany({ where: { id, userId } }), with the cascade
rawMaterialDeleteMany(d, id, userId) ==
  CascadeDelete([d EXCEPT !.rawMaterial =
                   {m \in @ : ~(m.id = id /\ m.userId = userId)}])

\* a faulty variant of productDeleteMany: the links of the product stay
productDeleteManyNoCascade(d, id, userId) ==
  [d EXCEPT !.product = {p \in @ : ~(p.id = id /\ p.userId = userId)}]

\* prisma.product.deleteMany({ where: { id, userId } }), with the cascade
productDeleteMany(d, id, userId) ==
  CascadeDelete([d EXCEPT !.product =
                   {p \in @ : ~(p.id = id /\ p.userId = userId)}])

\* prisma.product.update({ where: { id }, data: { totalCost } });
\* a product that is gone is left alone (the call rejects)
productUpdateTotalCost(d, id, totalCost) ==
  [d EXCEPT !.product =
     {IF p.id = id THEN [p EXCEPT !.totalCost = totalCost] ELSE p : p \in @}]

\* prisma.rawMaterial.create({ data: { name, cost, userId } });
\* RawMaterial_name_userId_key rejects a second (name, userId)
rawMaterialCreate(d, name, cost, userId) ==
  IF \E m \in d.rawMaterial : m.name = name /\ m.userId = userId
  THEN [ok |-> FALSE, db |-> d, id |-> 0]
  ELSE [ok |-> TRUE, id |-> RawMaterialIdOf(userId, name),
        db |-> [d EXCEPT
                 !.rawMaterial = @ \cup {[id |-> RawMaterialIdOf(userId, name),
                                          name |-> name, cost |-> cost,
                                          userId |-> userId]}]]

\* a faulty variant of productCreate: no unique key on (productId,
\* rawMaterialId)
productCreateNoPairKey(d, name, additionalCost, totalCost, userId, ingredients) ==
  LET n == Len(ingredients)
      violates ==
        \/ \E p \in d.product : p.name = name /\ p.userId = userId
        \/ \E k \in 1..n :
             ~\E m \in d.rawMaterial : m.id = ingredients[k].rawMaterialId
  IN IF violates
     THEN [ok |-> FALSE, db |-> d, id |-> 0]
     ELSE [ok |-> TRUE, id |-> ProductIdOf(userId, name),
           db |-> [d EXCEPT
                    !.product = @ \cup {[id |-> ProductIdOf(userId, name),
                                         name |-> name,
                                         additionalCost |-> additionalCost,
                                         totalCost |-> totalCost, userId |-> userId]},
                    !.productIngredient = @ \cup
                       {[productId |-> ProductIdOf(userId, name),
                         rawMaterialId |-> ingredients[k].rawMaterialId,
                         percentage |-> ingredients[k].percentage] : k \in 1..n}]]

\* prisma.product.create({ data: { ..., ingredients: { create: [...] } } }):
\* one statement; Product_name_userId_key, the (productId, rawMaterialId)
\* key and the rawMaterialId foreign key reject it as a whole
productCreate(d, name, additionalCost, totalCost, userId, ingredients) ==
  LET n == Len(ingredients)
      violates ==
        \/ \E p \in d.product : p.name = name /\ p.userId = userId
        \/ \E j, k \in 1..n :
             j # k /\ ingredients[j].rawMaterialId = ingredients[k].rawMaterialId
        \/ \E k \in 1..n :
             ~\E m \in d.rawMaterial : m.id = ingredients[k].rawMaterialId
  IN IF violates
     THEN [ok |-> FALSE, db |-> d, id |-> 0]
     ELSE [ok |-> TRUE, id |-> ProductIdOf(userId, name),
           db |-> [d EXCEPT
                    !.product = @ \cup {[id |-> ProductIdOf(userId, name),
                                         name |-> name,
                                         additionalCost |-> additionalCost,
                                         totalCost |-> totalCost, userId |-> userId]},
                    !.productIngredient = @ \cup
                       {[productId |-> ProductIdOf(userId, name),
                         rawMaterialId |-> ingredients[k].rawMaterialId,
                         percentage |-> ingredients[k].percentage] : k \in 1..n}]]


\* =========================================================================
\* Revision with the recalculation trigger
\*   products.controller.ts:125-298, raw-materials.controller.ts:1-111
\* Each handler is the set of its outcomes [db, resp] from store d.
\* =========================================================================

\* a faulty variant of calculateProductCost: adds the whole cost of each raw
\* material, whatever its percentage
calculateProductCostWholeCost(d, ingredients, additionalCost, userId) ==
  LET n == Len(ingredients)
      rows(k) == {m \in d.rawMaterial :
                    m.id = ingredients[k].rawMaterialId /\ m.userId = userId}
      missing == {k \in 1..n : rows(k) = {}}
  IN IF missing # {}
     THEN [found |-> FALSE, totalCost |-> 0,
           id |-> ingredients[CHOOSE k \in missing : \A j \in missing : k <= j].rawMaterialId]
     ELSE [found |-> TRUE, id |-> 0,
           totalCost |-> additionalCost
                         + SumSeq([k \in 1..n |-> (CHOOSE m \in rows(k) : TRUE).cost])]

\* products.controller.ts:138-159; found = FALSE when the findFirst of an
\* ingredient returns nothing and the function throws, id the id it names
RECURSIVE calculateProductCost(_, _, _, _)
calculateProductCost(d, ingredients, additionalCost, userId) ==
  IF ingredients = <<>>
  THEN [found |-> TRUE, totalCost |-> additionalCost, id |-> 0]
  ELSE LET ingredient == Head(ingredients)
           rows == {m \in d.rawMaterial :
                      m.id = ingredient.rawMaterialId /\ m.userId = userId}
       IN IF rows = {}
          THEN [found |-> FALSE, totalCost |-> 0, id |-> ingredient.rawMaterialId]
          ELSE LET rawMaterial == CHOOSE m \in rows : TRUE
                   rest == calculateProductCost(d, Tail(ingredients),
                                                additionalCost, userId)
               IN IF rest.found
                  THEN [rest EXCEPT !.totalCost =
                          @ + (rawMaterial.cost * ingredient.percentage) \div 100]
                  ELSE rest

\* products.controller.ts:220-223
totalPercentage(ingredients) ==
  SumSeq([k \in 1..Len(ingredients) |-> ingredients[k].percentage])

\* a faulty variant of percentagesOff: only a sum above 100 is off
percentagesOffAboveOnly(ingredients) == totalPercentage(ingredients) > 100

\* products.controller.ts:224, Math.abs(totalPercentage - 100) > 0.01
percentagesOff(ingredients) == Abs(totalPercentage(ingredients) - 100) * 100 > 1

\* products.controller.ts:215-258
createProductHandler(d, userId, body) ==
  IF ~createProductSchema(body) THEN {Outcome(d, ValidationErrors)}
  ELSE IF percentagesOff(body.ingredients)
  THEN {Outcome(d, Reply(400, "Ingredient percentages must add up to 100%."))}
  ELSE LET c == calculateProductCost(d, body.ingredients, body.additionalCost, userId)
       IN IF ~c.found THEN {Outcome(d, InternalServerError)}
          ELSE LET newProduct == productCreate(d, body.name, body.additionalCost,
                                               c.totalCost, userId, body.ingredients)
               IN IF ~newProduct.ok THEN {Outcome(d, InternalServerError)}
                  ELSE {Outcome(newProduct.db,
                                Response(201, "", 0, newProduct.id, c.totalCost))}

\* products.controller.ts:172-188
productsToUpdate(d, rawMaterialId, userId) ==
  {p \in d.product :
     /\ p.userId = userId
     /\ \E i \in IngredientsOf(d, p.id) : i.rawMaterialId = rawMaterialId}

\* a faulty variant of newTotalCost: adds the ingredient cost to the total
\* already stored
newTotalCostOnTop(d, product) ==
  SumSet(IngredientsOf(d, product.id),
         [i \in IngredientsOf(d, product.id) |->
            (RawMaterialById(d, i.rawMaterialId).cost * i.percentage) \div 100])
  + product.totalCost

\* products.controller.ts:195-200, over the rows read by the findMany
newTotalCost(d, product) ==
  SumSet(IngredientsOf(d, product.id),
         [i \in IngredientsOf(d, product.id) |->
            (RawMaterialById(d, i.rawMaterialId).cost * i.percentage) \div 100])
  + product.additionalCost

\* products.controller.ts:209: prisma.$transaction is handed the promises
\* of the async callbacks, whose updates are already issued one by one;
\* whether it then resolves or rejects is the client library's choice
transactionOfIssuedUpdates == {TRUE, FALSE}

RECURSIVE applyUpdates(_, _, _)
\* the product.update calls of products.controller.ts:202-205 that succeed
applyUpdates(d, snapshot, products) ==
  IF products = {} THEN d
  ELSE LET p == CHOOSE q \in products : TRUE
       IN applyUpdates(productUpdateTotalCost(d, p.id, newTotalCost(snapshot, p)),
                       snapshot, products \ {p})

\* a faulty variant of recalculateProductCostsForMaterial: without the early
\* return, an empty list of products makes it throw
recalculateProductCostsForMaterialNoReturn(d, rawMaterialId, userId, storeFaults) ==
  LET found == productsToUpdate(d, rawMaterialId, userId)
  IN IF found = {} THEN {[db |-> d, ok |-> FALSE]}
     ELSE UNION {
            {[db |-> applyUpdates(d, d, found \ failed), ok |-> ok] :
               ok \in IF failed = {} THEN transactionOfIssuedUpdates ELSE {FALSE}} :
            failed \in IF storeFaults THEN SUBSET found ELSE {{}}}

\* products.controller.ts:167-211; failed: the updates the store rejects
\* (none unless storeFaults); ok = FALSE when the function throws
recalculateProductCostsForMaterial(d, rawMaterialId, userId, storeFaults) ==
  LET found == productsToUpdate(d, rawMaterialId, userId)
  IN IF found = {} THEN {[db |-> d, ok |-> TRUE]}
     ELSE UNION {
            {[db |-> applyUpdates(d, d, found \ failed), ok |-> ok] :
               ok \in IF failed = {} THEN transactionOfIssuedUpdates ELSE {FALSE}} :
            failed \in IF storeFaults THEN SUBSET found ELSE {{}}}

\* raw-materials.controller.ts:5-28
createRawMaterialHandler(d, userId, body) ==
  IF ~createRawMaterialSchema(body) THEN {Outcome(d, ValidationErrors)}
  ELSE IF \E m \in d.rawMaterial : m.name = body.name /\ m.userId = userId
  THEN {Outcome(d, Reply(409, "A raw material with this name already exists."))}
  ELSE LET newMaterial == rawMaterialCreate(d, body.name, body.cost, userId)
       IN IF ~newMaterial.ok THEN {Outcome(d, InternalServerError)}
          ELSE {Outcome(newMaterial.db,
                        Response(201, "", 0, newMaterial.id, -1))}

\* raw-materials.controller.ts:44-75
updateRawMaterialHandler(d, userId, id, body, storeFaults) ==
  IF ~updateRawMaterialSchema(body) THEN {Outcome(d, ValidationErrors)}
  ELSE LET count == Cardinality({m \in d.rawMaterial : m.id = id /\ m.userId = userId})
           d1 == rawMaterialUpdateMany(d, id, userId, body.cost)
       IN IF count = 0
          THEN {Outcome(d1, Reply(404,
                  "Raw material not found or you do not have permission to edit it."))}
          ELSE {Outcome(r.db, IF r.ok THEN Response(200, "", 0, id, -1)
                                      ELSE InternalServerError) :
                  r \in recalculateProductCostsForMaterial(d1, id, userId, storeFaults)}

\* a faulty variant of deleteRawMaterialHandler: no look at the usages
deleteRawMaterialHandlerUnchecked(d, userId, id) ==
  IF \E m \in d.rawMaterial : m.id = id /\ m.userId = userId
  THEN {Outcome(rawMaterialDeleteMany(d, id, userId), Reply(204, ""))}
  ELSE {Outcome(d, Reply(404,
          "Raw material not found or you do not have permission to delete it."))}

\* raw-materials.controller.ts:77-111
deleteRawMaterialHandler(d, userId, id) ==
  LET usages == Cardinality({i \in d.productIngredient : i.rawMaterialId = id})
      count == Cardinality({m \in d.rawMaterial : m.id = id /\ m.userId = userId})
  IN IF usages > 0
     THEN {Outcome(d, Response(400, "Cannot delete. This material is used in product(s).",
                               0, 0, -1))}
     ELSE IF count = 0
     THEN {Outcome(rawMaterialDeleteMany(d, id, userId), Reply(404,
             "Raw material not found or you do not have permission to delete it."))}
     ELSE {Outcome(rawMaterialDeleteMany(d, id, userId), Reply(204, ""))}

\* products.controller.ts:280-298
deleteProductHandler(d, userId, id) ==
  LET count == Cardinality({p \in d.product : p.id = id /\ p.userId = userId})
  IN IF count = 0
     THEN {Outcome(productDeleteMany(d, id, userId), Reply(404,
             "Product not found or you do not have permission to delete it."))}
     ELSE {Outcome(productDeleteMany(d, id, userId), Reply(204, ""))}

\* products.controller.ts:260-278: the rows of the reply, each with its
\* ingredient links and their raw materials
getProductsHandler(d, userId) ==
  {[product |-> p,
    ingredients |-> {[percentage |-> i.percentage,
                      rawMaterial |-> RawMaterialById(d, i.rawMaterialId)] :
                       i \in IngredientsOf(d, p.id)}] :
     p \in {q \in d.product : q.userId = userId}}

\* =========================================================================
\* Revision of the products controller that names a missing raw material
\*   part_005 (createProduct, listProducts)
\* =========================================================================

\* part_005:75-214
createProduct(d, userId, body) ==
  LET ingredients == body.ingredients
      n == Len(ingredients)
      \* part_005:111-117, findMany({ where: { id: { in }, userId } })
      rawMaterials == {m \in d.rawMaterial :
                         /\ m.userId = userId
                         /\ \E k \in 1..n : ingredients[k].rawMaterialId = m.id}
      invalid == {k \in 1..n : ~ingredientSchema(ingredients[k])}
      unknown == {k \in 1..n :
                    ~\E m \in rawMaterials : m.id = ingredients[k].rawMaterialId}
      stopped == invalid \cup unknown
      first == CHOOSE k \in stopped : \A j \in stopped : k <= j
      calculatedIngredientCost ==
        SumSeq([k \in 1..n |->
                  (ingredients[k].percentage
                   * (CHOOSE m \in rawMaterials :
                        m.id = ingredients[k].rawMaterialId).cost) \div 100])
      totalCost == calculatedIngredientCost + body.additionalCost
      created == productCreate(d, body.name, body.additionalCost, totalCost,
                               userId, ingredients)
  IN IF body.name = "" THEN {Outcome(d, Reply(400, "Product name is required"))}
     ELSE IF body.additionalCost < 0
     THEN {Outcome(d, Reply(400, "Additional cost must be a non-negative number"))}
     ELSE IF n = 0
     THEN {Outcome(d, Reply(400, "At least one ingredient is required"))}
     ELSE IF stopped # {}
     THEN IF first \in invalid
          THEN {Outcome(d, Reply(400,
                  "Each ingredient must have a valid rawMaterialId and a positive percentage up to 100"))}
          ELSE {Outcome(d, Response(400,
                  "Raw material with ID not found or not owned by user.",
                  ingredients[first].rawMaterialId, 0, -1))}
     ELSE IF percentagesOff(ingredients)
     THEN {Outcome(d, Reply(400, "Ingredient percentages must add up to 100%."))}
     ELSE IF \E p \in d.product : p.name = body.name /\ p.userId = userId
     THEN {Outcome(d, Reply(409, "Product with name already exists."))}
     ELSE IF ~created.ok THEN {Outcome(d, InternalServerError)}
     ELSE {Outcome(created.db, Response(201, "", 0, created.id, totalCost))}

\* ------------------------------------------------------------ the requests
\* the request served last (operation, caller, id of the path) and its reply
Served(op, userId, id, o) ==
  /\ db' = o.db
  /\ last' = [op |-> op, userId |-> userId, id |-> id, resp |-> o.resp]
  /\ UNCHANGED requests

RawMaterialBodies(userId) == [name : MaterialNamesOf(userId) \cup {""}, cost : Costs]
CostBodies == [cost : Costs]
ProductBodies(userId) ==
  [name : ProductNamesOf(userId), additionalCost : AdditionalCosts,
   ingredients : IngredientLists]

Init ==
  /\ db = EmptyDb
  /\ last = [op |-> "none", userId |-> "A", id |-> 0, resp |-> Reply(0, "")]
  /\ requests = <<>>

\* POST /raw-materials
CreateRawMaterial ==
  \E userId \in Users :
    \E body \in RawMaterialBodies(userId) :
      \E o \in createRawMaterialHandler(db, userId, body) :
        Served("createRawMaterial", userId, 0, o)

\* PUT /raw-materials/:id
UpdateRawMaterial ==
  \E userId \in Users, id \in RawMaterialIds, body \in CostBodies :
    \E o \in updateRawMaterialHandler(db, userId, id, body, FALSE) :
      Served("updateRawMaterial", userId, id, o)

\* DELETE /raw-materials/:id
DeleteRawMaterial ==
  \E userId \in Users, id \in RawMaterialIds :
    \E o \in deleteRawMaterialHandler(db, userId, id) :
      Served("deleteRawMaterial", userId, id, o)

\* POST /products
CreateProduct ==
  \E userId \in Users :
    \E body \in ProductBodies(userId) :
      \E o \in createProductHandler(db, userId, body) :
        Served("createProduct", userId, 0, o)

\* DELETE /products/:id
DeleteProduct ==
  \E userId \in Users, id \in ProductIds :
    \E o \in deleteProductHandler(db, userId, id) :
      Served("deleteProduct", userId, id, o)

Next ==
  \/ CreateRawMaterial
  \/ UpdateRawMaterial
  \/ DeleteRawMaterial
  \/ CreateProduct
  \/ DeleteProduct

Spec == Init /\ [][Next]_vars

\* ---------------------------------------------------------- store faults
\* The same handlers when the store may reject a statement of the
\* recalculation.  One tenant suffices for what a fault does to its rows.
UpdateRawMaterialFaulty ==
  \E id \in RawMaterialIds, body \in CostBodies :
    \E o \in updateRawMaterialHandler(db, "A", id, body, TRUE) :
      Served("updateRawMaterial", "A", id, o)

CreateRawMaterialA ==
  \E body \in RawMaterialBodies("A") :
    \E o \in createRawMaterialHandler(db, "A", body) :
      Served("createRawMaterial", "A", 0, o)

CreateProductA ==
  \E body \in ProductBodies("A") :
    \E o \in createProductHandler(db, "A", body) :
      Served("createProduct", "A", 0, o)

DeleteRawMaterialA ==
  \E id \in RawMaterialIds :
    \E o \in deleteRawMaterialHandler(db, "A", id) :
      Served("deleteRawMaterial", "A", id, o)

DeleteProductA ==
  \E id \in ProductIds :
    \E o \in deleteProductHandler(db, "A", id) :
      Served("deleteProduct", "A", id, o)

NextStoreFaults ==
  \/ CreateRawMaterialA
  \/ UpdateRawMaterialFaulty
  \/ DeleteRawMaterialA
  \/ CreateProductA
  \/ DeleteProductA

SpecStoreFaults == Init /\ [][NextStoreFaults]_vars

\* =========================================================================
\* Revision without the recalculation trigger
\*   part_007:407-508 with products.controller.ts:1-123, whose product
\*   handlers are those of products.controller.ts:215-298 line by line; its
\*   createRawMaterialHandler (part_007:411-438) is the one of
\*   raw-materials.controller.ts:5-28
\* =========================================================================

\* part_007:457-484
updateRawMaterialHandler_part007(d, userId, id, body) ==
  IF ~updateRawMaterialSchema(body) THEN {Outcome(d, ValidationErrors)}
  ELSE LET count == Cardinality({m \in d.rawMaterial : m.id = id /\ m.userId = userId})
           d1 == rawMaterialUpdateMany(d, id, userId, body.cost)
       IN IF count = 0
          THEN {Outcome(d1, Reply(404,
                  "Raw material not found or you do not have permission to edit it."))}
          ELSE {Outcome(d1, Response(200, "", 0, id, -1))}

\* part_007:487-508
deleteRawMaterialHandler_part007(d, userId, id) ==
  LET count == Cardinality({m \in d.rawMaterial : m.id = id /\ m.userId = userId})
  IN IF count = 0
     THEN {Outcome(rawMaterialDeleteMany(d, id, userId), Reply(404,
             "Raw material not found or you do not have permission to delete it."))}
     ELSE {Outcome(rawMaterialDeleteMany(d, id, userId), Reply(204, ""))}

\* PUT /raw-materials/:id
UpdateRawMaterialNoTrigger ==
  \E id \in RawMaterialIds, body \in CostBodies :
    \E o \in updateRawMaterialHandler_part007(db, "A", id, body) :
      Served("updateRawMaterial", "A", id, o)

\* DELETE /raw-materials/:id
DeleteRawMaterialNoTrigger ==
  \E id \in RawMaterialIds :
    \E o \in deleteRawMaterialHandler_part007(db, "A", id) :
      Served("deleteRawMaterial", "A", id, o)

NextNoTrigger ==
  \/ CreateRawMaterialA
  \/ UpdateRawMaterialNoTrigger
  \/ DeleteRawMaterialNoTrigger
  \/ CreateProductA
  \/ DeleteProductA

SpecNoTrigger == Init /\ [][NextNoTrigger]_vars

\* =========================================================================
\* Revision that reads the caller from req.user
\*   raw-materials.controller.ts:113-306 with part_006
\* user is (req as any).user?.id: a tenant, or "" when the authentication
\* layer attached none.  No handler of this revision creates an ingredient
\* link; the links it meets were stored by createProductHandler before.
\* =========================================================================
Callers == Users \cup {""}

Unauthorized == Reply(401, "Unauthorized")

\* raw-materials.controller.ts:146-147: the links have no quantity column
quantity(ing) == 0

\* raw-materials.controller.ts:128-177; the updates are PrismaPromises, so
\* the $transaction applies them as one batch
recalculateProductCostsForMaterial_rawMaterials(d, rawMaterialId, userId) ==
  LET ingredients == {i \in d.productIngredient : i.rawMaterialId = rawMaterialId}
      productMap == {i.productId : i \in ingredients}
      additionalFromIngredients(pid) ==
        SumSet({i \in ingredients : i.productId = pid},
               [i \in {j \in ingredients : j.productId = pid} |->
                  quantity(i) * RawMaterialById(d, i.rawMaterialId).cost])
  IN [d EXCEPT !.product =
        {IF p.id \in productMap
         THEN [p EXCEPT !.additionalCost = additionalFromIngredients(p.id)]
         ELSE p : p \in @}]

\* raw-materials.controller.ts:198-217, behind validate(createRawMaterialSchema)
createRawMaterial(d, user, body) ==
  IF ~createRawMaterialSchema(body) THEN {Outcome(d, ValidationErrors)}
  ELSE IF user = "" THEN {Outcome(d, Unauthorized)}
  ELSE LET created == rawMaterialCreate(d, body.name, body.cost, user)
       IN IF ~created.ok THEN {Outcome(d, InternalServerError)}
          ELSE {Outcome(created.db, Response(201, "", 0, created.id, -1))}

\* raw-materials.controller.ts:219-245, behind validate(updateRawMaterialSchema)
updateRawMaterial(d, user, id, body) ==
  IF ~updateRawMaterialSchema(body) THEN {Outcome(d, ValidationErrors)}
  ELSE IF user = "" THEN {Outcome(d, Unauthorized)}
  ELSE LET d1 == rawMaterialUpdateMany(d, id, user, body.cost)
       IN {Outcome(recalculateProductCostsForMaterial_rawMaterials(d1, id, user),
                   Response(200, "", 0, id, -1))}

\* raw-materials.controller.ts:262-284
deleteRawMaterial(d, user, id) ==
  IF user = "" THEN {Outcome(d, Unauthorized)}
  ELSE LET d1 == rawMaterialDeleteMany(d, id, user)
           \* prisma.productIngredient.deleteMany({ where: { rawMaterialId: id } })
           d2 == [d1 EXCEPT !.productIngredient = {i \in @ : i.rawMaterialId # id}]
       IN {Outcome(recalculateProductCostsForMaterial_rawMaterials(d2, id, user),
                   Response(200, "", 0, id, -1))}

\* part_006:101-124: name, additionalCost and totalCost as the body gives them
createProduct_part006(d, user, body) ==
  IF user = "" THEN {Outcome(d, Unauthorized)}
  ELSE IF body.name = "" THEN {Outcome(d, Reply(400, "name required"))}
  ELSE LET created == productCreate(d, body.name, body.additionalCost,
                                    body.totalCost, user, <<>>)
       IN IF ~created.ok THEN {Outcome(d, InternalServerError)}
          ELSE {Outcome(created.db,
                        Response(201, "", 0, created.id, body.totalCost))}

\* part_006:83-99; id = 0: no id in the path, every product of the caller
deleteProductHandler_part006(d, user, id) ==
  IF user = "" THEN {Outcome(d, Unauthorized)}
  ELSE {Outcome(CascadeDelete([d EXCEPT !.product =
                   {p \in @ : ~(p.userId = user /\ (id = 0 \/ p.id = id))}]),
                Reply(200, ""))}

\* part_006:33-76, for a products array of one element that gives a
\* totalCost; prisma.product.update rejects an id that is not stored
bulkUpdateProducts(d, user, body) ==
  IF user = "" THEN {Outcome(d, Unauthorized)}
  ELSE IF ~\E p \in d.product : p.id = body.id
  THEN {Outcome(d, InternalServerError)}
  ELSE {Outcome(productUpdateTotalCost(d, body.id, body.totalCost),
                Response(200, "", 0, body.id, body.totalCost))}

LegacyProductBodies(user) ==
  [name : ProductNamesOf(IF user = "" THEN "B" ELSE user),
   additionalCost : AdditionalCosts, totalCost : {0, 110}]

BulkUpdateBodies == [id : ProductIds, totalCost : {110}]

\* the store the revision is deployed on, as the handlers of Spec leave it:
\* A's Cake is 70% Flour (100) and 30% Sugar (200) plus 10, B's Cake is
\* B's Flour (100) plus 10
LegacyStore ==
  [rawMaterial |->
     {[id |-> RawMaterialIdOf("A", "Flour"), name |-> "Flour", cost |-> 100, userId |-> "A"],
      [id |-> RawMaterialIdOf("A", "Sugar"), name |-> "Sugar", cost |-> 200, userId |-> "A"],
      [id |-> RawMaterialIdOf("B", "Flour"), name |-> "Flour", cost |-> 100, userId |-> "B"]},
   product |->
     {[id |-> ProductIdOf("A", "Cake"), name |-> "Cake", additionalCost |-> 10,
       totalCost |-> 140, userId |-> "A"],
      [id |-> ProductIdOf("B", "Cake"), name |-> "Cake", additionalCost |-> 10,
       totalCost |-> 110, userId |-> "B"]},
   productIngredient |->
     {[productId |-> ProductIdOf("A", "Cake"),
       rawMaterialId |-> RawMaterialIdOf("A", "Flour"), percentage |-> 70],
      [productId |-> ProductIdOf("A", "Cake"),
       rawMaterialId |-> RawMaterialIdOf("A", "Sugar"), percentage |-> 30],
      [productId |-> ProductIdOf("B", "Cake"),
       rawMaterialId |-> RawMaterialIdOf("B", "Flour"), percentage |-> 100]}]

InitLegacy ==
  /\ db = LegacyStore
  /\ last = [op |-> "none", userId |-> "A", id |-> 0, resp |-> Reply(0, "")]
  /\ requests = <<>>

LegacyCreateRawMaterial ==
  \E user \in Callers :
    \E body \in RawMaterialBodies(IF user = "" THEN "B" ELSE user) :
      \E o \in createRawMaterial(db, user, body) :
        Served("createRawMaterial", user, 0, o)

LegacyUpdateRawMaterial ==
  \E user \in Callers, id \in RawMaterialIds, body \in CostBodies :
    \E o \in updateRawMaterial(db, user, id, body) :
      Served("updateRawMaterial", user, id, o)

LegacyDeleteRawMaterial ==
  \E user \in Callers, id \in RawMaterialIds :
    \E o \in deleteRawMaterial(db, user, id) :
      Served("deleteRawMaterial", user, id, o)

LegacyCreateProduct ==
  \E user \in Callers :
    \E body \in LegacyProductBodies(user) :
      \E o \in createProduct_part006(db, user, body) :
        Served("createProduct", user, 0, o)

LegacyDeleteProduct ==
  \E user \in Callers, id \in ProductIds \cup {0} :
    \E o \in deleteProductHandler_part006(db, user, id) :
      Served("deleteProduct", user, id, o)

LegacyBulkUpdateProducts ==
  \E user \in Callers, body \in BulkUpdateBodies :
    \E o \in bulkUpdateProducts(db, user, body) :
      Served("bulkUpdateProducts", user, body.id, o)

NextLegacy ==
  \/ LegacyCreateRawMaterial
  \/ LegacyUpdateRawMaterial
  \/ LegacyDeleteRawMaterial
  \/ LegacyCreateProduct
  \/ LegacyDeleteProduct
  \/ LegacyBulkUpdateProducts

SpecLegacy == InitLegacy /\ [][NextLegacy]_vars

\* =========================================================================
\* Concurrent cost updates of the revision with the recalculation trigger
\*   raw-materials.controller.ts:44-75 calling products.controller.ts:167-211
\* Node serves a request up to its next await and then may serve another;
\* every awaited store call is one step.  The requests are tenant A's.
\* =========================================================================
MaxInFlight == 2

\* a request: pc is the store call it is about to make; updates are the
\* product.update calls issued and not yet applied; replied is the status
\* sent, 0 before the reply
Idle ==
  [pc |-> "idle", id |-> 0, cost |-> 0, updates |-> {}, replied |-> 0]

\* the store the requests meet, as the handlers of Spec leave it: Cake is
\* 70% Flour (100) and 30% Sugar (200) plus 10, Bread is Flour plus 10
ConcurrentStore ==
  [rawMaterial |->
     {[id |-> RawMaterialIdOf("A", "Flour"), name |-> "Flour", cost |-> 100, userId |-> "A"],
      [id |-> RawMaterialIdOf("A", "Sugar"), name |-> "Sugar", cost |-> 200, userId |-> "A"]},
   product |->
     {[id |-> ProductIdOf("A", "Cake"), name |-> "Cake", additionalCost |-> 10,
       totalCost |-> 140, userId |-> "A"],
      [id |-> ProductIdOf("A", "Bread"), name |-> "Bread", additionalCost |-> 10,
       totalCost |-> 110, userId |-> "A"]},
   productIngredient |->
     {[productId |-> ProductIdOf("A", "Cake"),
       rawMaterialId |-> RawMaterialIdOf("A", "Flour"), percentage |-> 70],
      [productId |-> ProductIdOf("A", "Cake"),
       rawMaterialId |-> RawMaterialIdOf("A", "Sugar"), percentage |-> 30],
      [productId |-> ProductIdOf("A", "Bread"),
       rawMaterialId |-> RawMaterialIdOf("A", "Flour"), percentage |-> 100]}]

InitConcurrent ==
  /\ db = ConcurrentStore
  /\ last = [op |-> "none", userId |-> "A", id |-> 0, resp |-> Reply(0, "")]
  /\ requests = [r \in 1..MaxInFlight |-> Idle]

\* res.status(...).json(...) of request r
Replies(r, resp) ==
  last' = [op |-> "updateRawMaterial", userId |-> "A", id |-> requests[r].id,
           resp |-> resp]

\* PUT /raw-materials/:id arrives; validate(updateRawMaterialSchema)
Receive(r) ==
  /\ requests[r].pc = "idle"
  /\ \E id \in RawMaterialIds, body \in CostBodies :
       IF updateRawMaterialSchema(body)
       THEN /\ requests' = [requests EXCEPT ![r] =
                               [Idle EXCEPT !.pc = "updateMany", !.id = id,
                                            !.cost = body.cost]]
            /\ UNCHANGED <<db, last>>
       ELSE /\ requests' = [requests EXCEPT ![r] =
                               [Idle EXCEPT !.pc = "done", !.id = id, !.replied = 400]]
            /\ last' = [op |-> "updateRawMaterial", userId |-> "A", id |-> id,
                        resp |-> ValidationErrors]
            /\ UNCHANGED db

\* raw-materials.controller.ts:50-60
UpdateMany(r) ==
  /\ requests[r].pc = "updateMany"
  /\ db' = rawMaterialUpdateMany(db, requests[r].id, "A", requests[r].cost)
  /\ IF \E m \in db.rawMaterial : m.id = requests[r].id /\ m.userId = "A"
     THEN /\ requests' = [requests EXCEPT ![r].pc = "findMany"]
          /\ UNCHANGED last
     ELSE /\ requests' = [requests EXCEPT ![r].pc = "done", ![r].replied = 404]
          /\ Replies(r, Reply(404,
                "Raw material not found or you do not have permission to edit it."))

\* products.controller.ts:172-209: the findMany, and the totals the callbacks
\* compute from its rows; the product.update calls are issued, and the
\* $transaction either waits for them or rejects at once
FindMany(r) ==
  /\ requests[r].pc = "findMany"
  /\ LET found == productsToUpdate(db, requests[r].id, "A")
         issued == {[id |-> p.id, totalCost |-> newTotalCost(db, p)] : p \in found}
     IN IF found = {}
        THEN /\ requests' = [requests EXCEPT ![r].pc = "findUnique"]
             /\ UNCHANGED last
        ELSE \E ok \in transactionOfIssuedUpdates :
               IF ok
               THEN /\ requests' = [requests EXCEPT ![r].pc = "transaction",
                                                     ![r].updates = issued]
                    /\ UNCHANGED last
               ELSE /\ requests' = [requests EXCEPT ![r].pc = "done",
                                                     ![r].updates = issued,
                                                     ![r].replied = 500]
                    /\ Replies(r, InternalServerError)
  /\ UNCHANGED db

\* products.controller.ts:202-205: one issued product.update reaches the store
ProductUpdate(r) ==
  /\ \E u \in requests[r].updates :
       /\ db' = productUpdateTotalCost(db, u.id, u.totalCost)
       /\ requests' = [requests EXCEPT ![r].updates = @ \ {u}]
  /\ UNCHANGED last

\* products.controller.ts:209: the awaited $transaction resolves
TransactionResolves(r) ==
  /\ requests[r].pc = "transaction"
  /\ requests[r].updates = {}
  /\ requests' = [requests EXCEPT ![r].pc = "findUnique"]
  /\ UNCHANGED <<db, last>>

\* raw-materials.controller.ts:67-70
FindUnique(r) ==
  /\ requests[r].pc = "findUnique"
  /\ requests' = [requests EXCEPT ![r].pc = "done", ![r].replied = 200]
  /\ Replies(r, Response(200, "", 0, requests[r].id, -1))
  /\ UNCHANGED db

NextConcurrent ==
  \E r \in 1..MaxInFlight :
    \/ Receive(r)
    \/ UpdateMany(r)
    \/ FindMany(r)
    \/ ProductUpdate(r)
    \/ TransactionResolves(r)
    \/ FindUnique(r)

SpecConcurrent == InitConcurrent /\ [][NextConcurrent]_vars

\* =========================================================================
\* Revision with the cascade delete in a transaction
\*   part_007:28-405 (raw materials) with part_005 (products)
\* The caller is req.userId, set by isAuthenticated before every handler.
\* =========================================================================

\* part_007:74-92 and 317-333: the ingredient cost of a product over the
\* links stored for it
totalIngredientCost(d, productId) ==
  SumSet(IngredientsOf(d, productId),
         [item \in IngredientsOf(d, productId) |->
            (item.percentage * RawMaterialById(d, item.rawMaterialId).cost) \div 100])

\* part_007:43-120: the products of userId that link rawMaterialId get
\* totalIngredientCost + additionalCost, in one $transaction of PrismaPromises
recalculateProductCostsForMaterial_part007(d, rawMaterialId, userId) ==
  LET productCostUpdates ==
        {p \in d.product :
           /\ p.userId = userId
           /\ \E ing \in d.productIngredient :
                ing.rawMaterialId = rawMaterialId /\ ing.productId = p.id}
  IN [d EXCEPT !.product =
        {IF p \in productCostUpdates
         THEN [p EXCEPT !.totalCost = totalIngredientCost(d, p.id) + p.additionalCost]
         ELSE p : p \in @}]

\* part_007:141-186, behind validate(createRawMaterialSchema); the create
\* follows the findUnique at once when requests are served one at a time
createRawMaterial_part007(d, userId, body) ==
  IF ~createRawMaterialSchema(body) THEN {Outcome(d, ValidationErrors)}
  ELSE IF \E m \in d.rawMaterial : m.name = body.name /\ m.userId = userId
  THEN {Outcome(d, Reply(409, "Material with name already exists."))}
  ELSE LET created == rawMaterialCreate(d, body.name, body.cost, userId)
       IN IF ~created.ok
          THEN {Outcome(d, Reply(409, "Material with name already exists."))}
          ELSE {Outcome(created.db, Response(201, "", 0, created.id, -1))}

\* part_007:189-249, behind validate(updateRawMaterialSchema)
updateRawMaterial_part007(d, userId, id, body) ==
  IF ~updateRawMaterialSchema(body) THEN {Outcome(d, ValidationErrors)}
  ELSE IF body.cost < 0
  THEN {Outcome(d, Reply(400, "Valid cost (non-negative number) required"))}
  ELSE IF ~\E m \in d.rawMaterial : m.id = id /\ m.userId = userId
  THEN {Outcome(d, Reply(404,
          "Raw material not found or you don't have permission to edit it."))}
  ELSE LET updated == rawMaterialUpdateMany(d, id, userId, body.cost)
       IN {Outcome(recalculateProductCostsForMaterial_part007(updated, id, userId),
                   Response(200, "", 0, id, -1))}

\* part_007:275-379: the links of id are read, then one interactive
\* transaction deletes them, deletes the row and rewrites the totals; the
\* throw of line 310 rolls it back
deleteRawMaterial_part007(d, userId, id) ==
  LET affectedProductIds ==
        {ing.productId :
           ing \in {i \in d.productIngredient :
                      /\ i.rawMaterialId = id
                      /\ \E p \in d.product : p.id = i.productId /\ p.userId = userId}}
      unlinked == [d EXCEPT !.productIngredient = {i \in @ : i.rawMaterialId # id}]
      deleted == rawMaterialDeleteMany(unlinked, id, userId)
  IN IF ~\E m \in unlinked.rawMaterial : m.id = id /\ m.userId = userId
     THEN {Outcome(d, Reply(404,
             "Raw material not found or you don't have permission to delete it."))}
     ELSE {Outcome([deleted EXCEPT !.product =
                      {IF p.id \in affectedProductIds
                       THEN [p EXCEPT !.totalCost =
                               totalIngredientCost(deleted, p.id) + p.additionalCost]
                       ELSE p : p \in @}],
                   Response(200, "", 0, id, -1))}

\* part_005:220-272: the links of id are deleted, then the product; the
\* throw of line 248 rolls the transaction back
deleteProductHandler_part005(d, userId, id) ==
  LET unlinked == [d EXCEPT !.productIngredient = {i \in @ : i.productId # id}]
  IN IF ~\E p \in unlinked.product : p.id = id /\ p.userId = userId
     THEN {Outcome(d, Reply(404,
             "Product not found or you don't have permission to delete it."))}
     ELSE {Outcome(productDeleteMany(unlinked, id, userId), Response(200, "", 0, id, -1))}

TxCreateRawMaterial ==
  \E userId \in Users :
    \E body \in RawMaterialBodies(userId) :
      \E o \in createRawMaterial_part007(db, userId, body) :
        Served("createRawMaterial", userId, 0, o)

TxUpdateRawMaterial ==
  \E userId \in Users, id \in RawMaterialIds, body \in CostBodies :
    \E o \in updateRawMaterial_part007(db, userId, id, body) :
      Served("updateRawMaterial", userId, id, o)

TxDeleteRawMaterial ==
  \E userId \in Users, id \in RawMaterialIds :
    \E o \in deleteRawMaterial_part007(db, userId, id) :
      Served("deleteRawMaterial", userId, id, o)

\* one product name for each tenant
TxProductBodies(userId) == {body \in ProductBodies(userId) : body.name = "Cake"}

TxCreateProduct ==
  \E userId \in Users :
    \E body \in TxProductBodies(userId) :
      \E o \in createProduct(db, userId, body) :
        Served("createProduct", userId, 0, o)

TxDeleteProduct ==
  \E userId \in Users, id \in ProductIds :
    \E o \in deleteProductHandler_part005(db, userId, id) :
      Served("deleteProduct", userId, id, o)

NextTransactional ==
  \/ TxCreateRawMaterial
  \/ TxUpdateRawMaterial
  \/ TxDeleteRawMaterial
  \/ TxCreateProduct
  \/ TxDeleteProduct

SpecTransactional == Init /\ [][NextTransactional]_vars

\* =========================================================================
\* A delete of a raw material racing a product creation
\*   raw-materials.controller.ts:76-111 and products.controller.ts:138-159,
\*   215-258, both tenant A's; every awaited store call is one step
\* requests.delete and requests.create are the two requests in flight
\* =========================================================================
IdleDelete == [pc |-> "idle", id |-> 0, replied |-> 0]

\* k: the ingredient whose findFirst is next; totalCost: the sum so far
IdleCreate ==
  [pc |-> "idle", body |-> [name |-> "", additionalCost |-> 0, ingredients |-> <<>>],
   k |-> 0, totalCost |-> 0, replied |-> 0]

\* tenant A's two raw materials, no product yet
RaceStore ==
  [rawMaterial |->
     {[id |-> RawMaterialIdOf("A", "Flour"), name |-> "Flour", cost |-> 100, userId |-> "A"],
      [id |-> RawMaterialIdOf("A", "Sugar"), name |-> "Sugar", cost |-> 200, userId |-> "A"]},
   product |-> {},
   productIngredient |-> {}]

InitDeleteRace ==
  /\ db = RaceStore
  /\ last = [op |-> "none", userId |-> "A", id |-> 0, resp |-> Reply(0, "")]
  /\ requests = [delete |-> IdleDelete, create |-> IdleCreate]

DeleteReplies(resp, pc) ==
  /\ requests' = [requests EXCEPT !.delete.pc = pc, !.delete.replied = resp.status]
  /\ last' = [op |-> "deleteRawMaterial", userId |-> "A", id |-> requests.delete.id,
              resp |-> resp]

CreateReplies(resp) ==
  /\ requests' = [requests EXCEPT !.create.pc = "done", !.create.replied = resp.status]
  /\ last' = [op |-> "createProduct", userId |-> "A", id |-> 0, resp |-> resp]

\* DELETE /raw-materials/:id arrives
ReceiveDelete ==
  /\ requests.delete.pc = "idle"
  /\ \E id \in RawMaterialIds :
       requests' = [requests EXCEPT !.delete = [IdleDelete EXCEPT !.pc = "count", !.id = id]]
  /\ UNCHANGED <<db, last>>

\* raw-materials.controller.ts:82-93, prisma.productIngredient.count
CountUsages ==
  /\ requests.delete.pc = "count"
  /\ IF \E i \in db.productIngredient : i.rawMaterialId = requests.delete.id
     THEN DeleteReplies(Reply(400, "Cannot delete. This material is used in product(s)."),
                        "done")
     ELSE /\ requests' = [requests EXCEPT !.delete.pc = "deleteMany"]
          /\ UNCHANGED last
  /\ UNCHANGED db

\* raw-materials.controller.ts:95-106, prisma.rawMaterial.deleteMany
DeleteMany ==
  /\ requests.delete.pc = "deleteMany"
  /\ db' = rawMaterialDeleteMany(db, requests.delete.id, "A")
  /\ IF \E m \in db.rawMaterial : m.id = requests.delete.id /\ m.userId = "A"
     THEN DeleteReplies(Reply(204, ""), "done")
     ELSE DeleteReplies(
            Reply(404, "Raw material not found or you do not have permission to delete it."),
            "done")

\* POST /products arrives: validate(createProductSchema), then
\* products.controller.ts:220-228
ReceiveCreate ==
  /\ requests.create.pc = "idle"
  /\ \E body \in ProductBodies("A") :
       IF ~createProductSchema(body) THEN CreateReplies(ValidationErrors)
       ELSE IF percentagesOff(body.ingredients)
       THEN CreateReplies(Reply(400, "Ingredient percentages must add up to 100%."))
       ELSE /\ requests' = [requests EXCEPT !.create =
                              [IdleCreate EXCEPT !.pc = "findFirst", !.body = body, !.k = 1]]
            /\ UNCHANGED last
  /\ UNCHANGED db

\* products.controller.ts:144-156, one turn of the loop of calculateProductCost
FindFirst ==
  /\ requests.create.pc = "findFirst"
  /\ LET c == requests.create
         ingredient == c.body.ingredients[c.k]
         rows == {m \in db.rawMaterial :
                    m.id = ingredient.rawMaterialId /\ m.userId = "A"}
     IN IF rows = {}
        THEN CreateReplies(InternalServerError)
        ELSE /\ requests' =
                  [requests EXCEPT
                     !.create.totalCost =
                        @ + ((CHOOSE m \in rows : TRUE).cost * ingredient.percentage) \div 100,
                     !.create.k = @ + 1,
                     !.create.pc = IF c.k = Len(c.body.ingredients)
                                   THEN "create" ELSE "findFirst"]
             /\ UNCHANGED last
  /\ UNCHANGED db

\* products.controller.ts:157-158 and 236-257, prisma.product.create
ProductCreate ==
  /\ requests.create.pc = "create"
  /\ LET c == requests.create
         totalCost == c.totalCost + c.body.additionalCost
         newProduct == productCreate(db, c.body.name, c.body.additionalCost,
                                     totalCost, "A", c.body.ingredients)
     IN IF newProduct.ok
        THEN /\ db' = newProduct.db
             /\ CreateReplies(Response(201, "", 0, newProduct.id, totalCost))
        ELSE /\ db' = db
             /\ CreateReplies(InternalServerError)

NextDeleteRace ==
  \/ ReceiveDelete
  \/ CountUsages
  \/ DeleteMany
  \/ ReceiveCreate
  \/ FindFirst
  \/ ProductCreate

SpecDeleteRace == InitDeleteRace /\ [][NextDeleteRace]_vars

\* =========================================================================
\* Concurrent creations of raw materials by tenant A
\*   raw-materials.controller.ts:5-28 and part_007:141-186; the existence
\*   check and the insert are two awaited store calls, each one step
\* =========================================================================
IdleCreateRawMaterial == [pc |-> "idle", name |-> "", cost |-> 0, replied |-> 0]

InitCreateRace ==
  /\ db = EmptyDb
  /\ last = [op |-> "none", userId |-> "A", id |-> 0, resp |-> Reply(0, "")]
  /\ requests = [r \in 1..MaxInFlight |-> IdleCreateRawMaterial]

CreateRawMaterialReplies(r, resp) ==
  /\ requests' = [requests EXCEPT ![r].pc = "done", ![r].replied = resp.status]
  /\ last' = [op |-> "createRawMaterial", userId |-> "A", id |-> r, resp |-> resp]

\* POST /raw-materials arrives; validate(createRawMaterialSchema)
ReceiveCreateRawMaterial(r) ==
  /\ requests[r].pc = "idle"
  /\ \E body \in RawMaterialBodies("A") :
       IF createRawMaterialSchema(body)
       THEN /\ requests' = [requests EXCEPT ![r] =
                              [IdleCreateRawMaterial EXCEPT !.pc = "find",
                                 !.name = body.name, !.cost = body.cost]]
            /\ UNCHANGED last
       ELSE /\ requests' = [requests EXCEPT ![r] =
                              [IdleCreateRawMaterial EXCEPT !.pc = "done",
                                 !.name = body.name, !.cost = body.cost,
                                 !.replied = 400]]
            /\ last' = [op |-> "createRawMaterial", userId |-> "A", id |-> r,
                        resp |-> ValidationErrors]
  /\ UNCHANGED db

\* raw-materials.controller.ts:10-18, prisma.rawMaterial.findFirst;
\* part_007:156-163, prisma.rawMaterial.findUnique
FindExisting(r, conflict) ==
  /\ requests[r].pc = "find"
  /\ IF \E m \in db.rawMaterial : m.name = requests[r].name /\ m.userId = "A"
     THEN CreateRawMaterialReplies(r, conflict)
     ELSE /\ requests' = [requests EXCEPT ![r].pc = "create"]
          /\ UNCHANGED last
  /\ UNCHANGED db

\* raw-materials.controller.ts:20-27, part_007:165-185: prisma.rawMaterial.create;
\* onUniqueViolation is the reply of the catch when the unique index rejects it
RawMaterialCreate(r, onUniqueViolation) ==
  /\ requests[r].pc = "create"
  /\ LET created == rawMaterialCreate(db, requests[r].name, requests[r].cost, "A")
     IN IF created.ok
        THEN /\ db' = created.db
             /\ CreateRawMaterialReplies(r, Response(201, "", 0, created.id, -1))
        ELSE /\ db' = db
             /\ CreateRawMaterialReplies(r, onUniqueViolation)

\* raw-materials.controller.ts:5-28
NextCreateRace ==
  \E r \in 1..MaxInFlight :
    \/ ReceiveCreateRawMaterial(r)
    \/ FindExisting(r, Reply(409, "A raw material with this name already exists."))
    \/ RawMaterialCreate(r, InternalServerError)

SpecCreateRace == InitCreateRace /\ [][NextCreateRace]_vars

\* part_007:141-186
NextCreateRacePart007 ==
  \E r \in 1..MaxInFlight :
    \/ ReceiveCreateRawMaterial(r)
    \/ FindExisting(r, Reply(409, "Material with name already exists."))
    \/ RawMaterialCreate(r, Reply(409, "Material with name already exists."))

SpecCreateRacePart007 == InitCreateRace /\ [][NextCreateRacePart007]_vars

\* =========================================================================
\* Reads of the product list while cost updates are in flight
\*   products.controller.ts:260-278 served between the store calls of
\*   raw-materials.controller.ts:44-75; part_005:14-72 is the list handler
\*   that recomputes each total from the rows it read
\* =========================================================================

\* part_005:14-72: the rows of getProductsHandler, each with its totalCost
\* overridden by calculatedIngredientCost + additionalCost (41-64)
listProducts(d, userId) ==
  {[row EXCEPT !.product.totalCost =
      SumSet(row.ingredients,
             [ing \in row.ingredients |->
                (ing.percentage * ing.rawMaterial.cost) \div 100])
      + row.product.additionalCost] :
     row \in getProductsHandler(d, userId)}

\* GET /products of tenant A, one findMany; the reply is kept in last.resp
GetProducts ==
  /\ last' = [op |-> "getProducts", userId |-> "A", id |-> 0,
              resp |-> getProductsHandler(db, "A")]
  /\ UNCHANGED <<db, requests>>

NextReadDuringUpdate ==
  \/ NextConcurrent
  \/ GetProducts

SpecReadDuringUpdate == InitConcurrent /\ [][NextReadDuringUpdate]_vars

\* =========================================================================
\* The recalculation trigger on its own
\*   products.controller.ts:167-211, raw-materials.controller.ts:128-177 and
\*   part_007:43-120, each applied to the store that cost writes and earlier
\*   runs have left; last.op names the function that ran last
\* =========================================================================
InitRecalculate ==
  /\ db = LegacyStore
  /\ last = [op |-> "none", userId |-> "A", id |-> 0, resp |-> Reply(0, "")]
  /\ requests = <<>>

\* the cost write of an update handler (raw-materials.controller.ts:50-53,
\* 231-234, part_007:222-225), behind validate(updateRawMaterialSchema)
WriteCost ==
  \E userId \in Users, id \in RawMaterialIds, body \in CostBodies :
    /\ updateRawMaterialSchema(body)
    /\ \E m \in db.rawMaterial : m.id = id /\ m.userId = userId
    /\ db' = rawMaterialUpdateMany(db, id, userId, body.cost)
    /\ last' = [op |-> "updateMany", userId |-> userId, id |-> id, resp |-> Reply(0, "")]
    /\ UNCHANGED requests

\* products.controller.ts:167-211
Recalculate ==
  \E userId \in Users, id \in RawMaterialIds :
    \E r \in recalculateProductCostsForMaterial(db, id, userId, FALSE) :
      /\ db' = r.db
      /\ last' = [op |-> "recalculateProductCostsForMaterial", userId |-> userId,
                  id |-> id, resp |-> Reply(0, "")]
      /\ UNCHANGED requests

\* raw-materials.controller.ts:128-177
RecalculateRawMaterials ==
  \E userId \in Users, id \in RawMaterialIds :
    /\ db' = recalculateProductCostsForMaterial_rawMaterials(db, id, userId)
    /\ last' = [op |-> "recalculateProductCostsForMaterial_rawMaterials",
                userId |-> userId, id |-> id, resp |-> Reply(0, "")]
    /\ UNCHANGED requests

\* part_007:43-120
RecalculatePart007 ==
  \E userId \in Users, id \in RawMaterialIds :
    /\ db' = recalculateProductCostsForMaterial_part007(db, id, userId)
    /\ last' = [op |-> "recalculateProductCostsForMaterial_part007",
                userId |-> userId, id |-> id, resp |-> Reply(0, "")]
    /\ UNCHANGED requests

NextRecalculate ==
  \/ WriteCost
  \/ Recalculate
  \/ RecalculateRawMaterials
  \/ RecalculatePart007

SpecRecalculate == InitRecalculate /\ [][NextRecalculate]_vars

\* =========================================================================
\* Product creation with bodies that validation has to stop
\*   part_004:15 validate(createProductSchema) before createProductHandler
\*   (products.controller.ts:215-258), and the checks of createProduct
\*   itself (part_005:93-162); requests is the body submitted last
\* =========================================================================
AnyPercentages == {0, 50, 100, 110}
AnyAdditionalCosts == {-10, 10}

AnyIngredientLists ==
  LET inputs == [rawMaterialId : {RawMaterialIdOf("A", n) : n \in MaterialNames},
                 percentage : AnyPercentages]
  IN {<<>>} \cup [1..1 -> inputs] \cup [1..2 -> inputs]

AnyProductBodies ==
  [name : {"Cake", ""}, additionalCost : AnyAdditionalCosts,
   ingredients : AnyIngredientLists]

InitValidation ==
  /\ db = RaceStore
  /\ last = [op |-> "none", userId |-> "A", id |-> 0, resp |-> Reply(0, "")]
  /\ requests = [name |-> "", additionalCost |-> 0, ingredients |-> <<>>]

\* POST /products by tenant A, products.controller.ts:215-258
PostProduct ==
  \E body \in AnyProductBodies :
    \E o \in createProductHandler(db, "A", body) :
      /\ db' = o.db
      /\ last' = [op |-> "createProductHandler", userId |-> "A", id |-> 0,
                  resp |-> o.resp]
      /\ requests' = body

\* POST /products by tenant A, part_005:75-214
PostProductPart005 ==
  \E body \in AnyProductBodies :
    \E o \in createProduct(db, "A", body) :
      /\ db' = o.db
      /\ last' = [op |-> "createProduct", userId |-> "A", id |-> 0, resp |-> o.resp]
      /\ requests' = body

\* DELETE /products/:id by tenant A, products.controller.ts:280-298
DeleteAnyProduct ==
  \E id \in ProductIds :
    \E o \in deleteProductHandler(db, "A", id) :
      /\ db' = o.db
      /\ last' = [op |-> "deleteProduct", userId |-> "A", id |-> id, resp |-> o.resp]
      /\ UNCHANGED requests

NextValidation ==
  \/ PostProduct
  \/ PostProductPart005
  \/ DeleteAnyProduct

SpecValidation == InitValidation /\ [][NextValidation]_vars

\* =========================================================================
\* The product list as a sequence
\*   products.controller.ts:260-278 (orderBy name asc) and part_005:14-72
\*   (orderBy createdAt desc); db.created holds the ids of the products in
\*   the order of their creation, which is the order of Product.createdAt
\* =========================================================================

\* the collation of the product names
Alphabetical == <<"Bread", "Cake">>

RECURSIVE orderBy(_, _)
\* the rows in ascending order of rank[row]
orderBy(rows, rank) ==
  IF rows = {} THEN <<>>
  ELSE LET first == CHOOSE r \in rows : \A q \in rows : rank[r] <= rank[q]
       IN <<first>> \o orderBy(rows \ {first}, rank)

\* products.controller.ts:263-273, orderBy: { name: "asc" }
getProductsHandlerOrdered(d, userId) ==
  LET rows == getProductsHandler(d, userId)
  IN orderBy(rows, [row \in rows |-> IndexIn(Alphabetical, row.product.name)])

\* part_005:20-67, orderBy: { createdAt: "desc" }
listProductsOrdered(d, userId) ==
  LET rows == listProducts(d, userId)
  IN orderBy(rows, [row \in rows |-> 0 - IndexIn(d.created, row.product.id)])

InitListing ==
  /\ db = [rawMaterial |-> LegacyStore.rawMaterial, product |-> {},
           productIngredient |-> {}, created |-> <<>>]
  /\ last = [op |-> "none", userId |-> "A", id |-> 0, resp |-> <<>>]
  /\ requests = <<>>

\* POST /products, products.controller.ts:215-258; Product.createdAt is
\* DEFAULT CURRENT_TIMESTAMP (migration.sql:28-38)
ListingCreateProduct ==
  \E userId \in Users :
    \E body \in ProductBodies(userId) :
      \E o \in createProductHandler(db, userId, body) :
        /\ o.resp.status = 201
        /\ db' = [o.db EXCEPT !.created = Append(@, o.resp.id)]
        /\ last' = [op |-> "createProduct", userId |-> userId, id |-> o.resp.id,
                    resp |-> <<>>]
        /\ UNCHANGED requests

\* DELETE /products/:id, products.controller.ts:280-298
ListingDeleteProduct ==
  \E userId \in Users, id \in ProductIds :
    \E o \in deleteProductHandler(db, userId, id) :
      /\ o.resp.status = 204
      /\ db' = [o.db EXCEPT !.created = SelectSeq(@, LAMBDA x : x # id)]
      /\ last' = [op |-> "deleteProduct", userId |-> userId, id |-> id, resp |-> <<>>]
      /\ UNCHANGED requests

\* GET /products, products.controller.ts:260-278
ListingGetProducts ==
  \E userId \in Users :
    /\ last' = [op |-> "getProductsHandler", userId |-> userId, id |-> 0,
                resp |-> getProductsHandlerOrdered(db, userId)]
    /\ UNCHANGED <<db, requests>>

\* GET /products, part_005:14-72
ListingListProducts ==
  \E userId \in Users :
    /\ last' = [op |-> "listProducts", userId |-> userId, id |-> 0,
                resp |-> listProductsOrdered(db, userId)]
    /\ UNCHANGED <<db, requests>>

NextListing ==
  \/ ListingCreateProduct
  \/ ListingDeleteProduct
  \/ ListingGetProducts
  \/ ListingListProducts

SpecListing == InitListing /\ [][NextListing]_vars

\* =========================================================================
\* A product creation racing a cost update
\*   products.controller.ts:215-258 against raw-materials.controller.ts:44-75
\* The creation takes the steps of the delete race, the cost update the steps
\* of the concurrent cost updates; both requests are tenant A's.
\* =========================================================================
InitCreateUpdateRace ==
  /\ db = RaceStore
  /\ last = [op |-> "none", userId |-> "A", id |-> 0, resp |-> Reply(0, "")]
  /\ requests = [create |-> IdleCreate, update |-> Idle]

NextCreateUpdateRace ==
  \/ ReceiveCreate
  \/ FindFirst
  \/ ProductCreate
  \/ Receive("update")
  \/ UpdateMany("update")
  \/ FindMany("update")
  \/ ProductUpdate("update")
  \/ TransactionResolves("update")
  \/ FindUnique("update")

SpecCreateUpdateRace == InitCreateUpdateRace /\ [][NextCreateUpdateRace]_vars

\* =========================================================================
\* Properties
\* =========================================================================

\* the raw material a submitted ingredient refers to, if the caller owns one
OwnedBy(d, userId, id) == {m \in d.rawMaterial : m.id = id /\ m.userId = userId}

\* additionalCost + sum of percentage/100 x stored cost over a submitted list
SubmittedTotalCost(d, userId, body) ==
  body.additionalCost
  + SumSeq([k \in 1..Len(body.ingredients) |->
              SumSet(OwnedBy(d, userId, body.ingredients[k].rawMaterialId),
                     [m \in OwnedBy(d, userId, body.ingredients[k].rawMaterialId) |->
                        (m.cost * body.ingredients[k].percentage) \div 100])])

\* both revisions of POST /products that the product claims cite
CreateProductOutcomes(d, userId, body) ==
  createProductHandler(d, userId, body) \cup createProduct(d, userId, body)

\* C3: a successful CreateProduct stores and returns
\* totalCost = additionalCost + sum over the submitted ingredients of
\* percentage/100 x the cost stored for the raw material at creation time.
\* Checked for every body at every reachable store, for both revisions.
C3_CreateProductTotalCost ==
  \A userId \in Users : \A body \in ProductBodies(userId) :
    \A o \in CreateProductOutcomes(db, userId, body) :
      o.resp.status = 201 =>
        /\ o.resp.totalCost = SubmittedTotalCost(db, userId, body)
        /\ \E p \in o.db.product :
             /\ p.id = o.resp.id
             /\ p.id \notin {q.id : q \in db.product}
             /\ p.name = body.name /\ p.userId = userId
             /\ p.additionalCost = body.additionalCost
             /\ p.totalCost = SubmittedTotalCost(db, userId, body)
             /\ p.totalCost = DerivedTotalCost(o.db, p)

\* C3 happens: a product of two ingredients with positive costs was created
C3_Witness ==
  /\ last.op = "createProduct"
  /\ last.resp.status = 201
  /\ \E p \in db.product :
       /\ p.id = last.resp.id
       /\ Cardinality(IngredientsOf(db, p.id)) = 2
       /\ \A i \in IngredientsOf(db, p.id) : RawMaterialById(db, i.rawMaterialId).cost > 0
       /\ p.totalCost = last.resp.totalCost
       /\ p.totalCost > p.additionalCost

\* C4: a CreateProduct whose percentages sum to a value more than 0.01 away
\* from 100 fails with a validation error (400) and leaves the store as it
\* was.  Checked for every body at every reachable store, both revisions.
C4_PercentagesOffRejected ==
  \A userId \in Users : \A body \in ProductBodies(userId) :
    Abs(SumSeq([k \in 1..Len(body.ingredients) |->
                  body.ingredients[k].percentage]) - 100) * 100 > 1
    => \A o \in CreateProductOutcomes(db, userId, body) :
         o.resp.status = 400 /\ o.db = db

\* C4 happens: a request was rejected for its percentage sum although the
\* caller owns raw materials it could have named
C4_Witness ==
  /\ last.op = "createProduct"
  /\ last.resp = Reply(400, "Ingredient percentages must add up to 100%.")
  /\ \E m \in db.rawMaterial : m.userId = last.userId

\* C8: a CreateProduct naming a raw material that does not exist or belongs
\* to another tenant is rejected with a validation error (4xx) that names
\* the offending id, and stores nothing.  Stated for bodies that are valid
\* otherwise (schema and percentage sum).
C8_ForeignIngredientNamed ==
  \A userId \in Users : \A body \in ProductBodies(userId) :
    LET offending == {body.ingredients[k].rawMaterialId : k \in
                        {j \in 1..Len(body.ingredients) :
                           OwnedBy(db, userId, body.ingredients[j].rawMaterialId) = {}}}
    IN (createProductSchema(body) /\ ~percentagesOff(body.ingredients)
        /\ offending # {})
       => \A o \in createProductHandler(db, userId, body) :
            /\ o.resp.status \in {400, 403, 404}
            /\ o.resp.named \in offending
            /\ o.db = db

\* the part of C8 the handler keeps: such a request never succeeds and
\* stores nothing
C8_ForeignIngredientNeverStored ==
  \A userId \in Users : \A body \in ProductBodies(userId) :
    (\E k \in 1..Len(body.ingredients) :
        OwnedBy(db, userId, body.ingredients[k].rawMaterialId) = {})
    => \A o \in CreateProductOutcomes(db, userId, body) :
         o.resp.status >= 400 /\ o.db = db

\* C8 as the revision of part_005 answers it
C8_ForeignIngredientNamedPart005 ==
  \A userId \in Users : \A body \in ProductBodies(userId) :
    LET offending == {body.ingredients[k].rawMaterialId : k \in
                        {j \in 1..Len(body.ingredients) :
                           OwnedBy(db, userId, body.ingredients[j].rawMaterialId) = {}}}
    IN offending # {}
       => \A o \in createProduct(db, userId, body) :
            /\ o.resp.status = 400
            /\ o.resp.named \in offending
            /\ o.db = db

\* C8 happens: a request failed with the generic error while another
\* tenant owns a raw material and the caller's store holds what it held
C8_Witness ==
  /\ last.op = "createProduct"
  /\ last.resp = InternalServerError
  /\ \E m \in db.rawMaterial : m.userId # last.userId

\* C10: deleting a raw material that an ingredient link references fails
\* and changes no raw material, product, link or totalCost.
C10_ReferencedDeleteRejected ==
  \A userId \in Users : \A id \in RawMaterialIds :
    (\E i \in db.productIngredient : i.rawMaterialId = id)
    => \A o \in deleteRawMaterialHandler(db, userId, id) :
         o.resp.status >= 400 /\ o.db = db

\* C10 happens: the owner's delete of a referenced raw material was refused
C10_Witness ==
  /\ last.op = "deleteRawMaterial"
  /\ last.resp.status = 400
  /\ \E m \in db.rawMaterial : m.id = last.id /\ m.userId = last.userId
  /\ \E i \in db.productIngredient : i.rawMaterialId = last.id

\* the rows a product read returns for the products of the caller that
\* reference raw material id
ReadsReferencing(d, userId, id) ==
  {row \in getProductsHandler(d, userId) :
     \E i \in row.ingredients : i.rawMaterial.id = id}

\* C2: once UpdateCost has replied success, every product of the tenant that
\* references the material is read with the totalCost recomputed from the
\* stored costs.
C2_SuccessMeansRecalculated ==
  (last.op = "updateRawMaterial" /\ last.resp.status = 200)
  => \A row \in ReadsReferencing(db, last.userId, last.id) :
       row.product.totalCost
         = row.product.additionalCost
           + SumSet(row.ingredients,
                    [i \in row.ingredients |->
                       (i.rawMaterial.cost * i.percentage) \div 100])

\* C2 happens: a successful cost update of a raw material that a product of
\* the caller references
C2_Witness ==
  /\ last.op = "updateRawMaterial"
  /\ last.resp.status = 200
  /\ ReadsReferencing(db, last.userId, last.id) # {}

\* C6: one recalculation that affects several products is all-or-nothing:
\* after it, either no affected product's totalCost differs from before or
\* every affected product carries its new totalCost.  Checked for every
\* cost update at every reachable store; d1 is the store after the cost
\* write, on which the handler invokes the recalculation.
C6_RecalculationAllOrNothing ==
  \A id \in RawMaterialIds : \A body \in CostBodies :
    LET d1 == rawMaterialUpdateMany(db, id, "A", body.cost)
        affected == productsToUpdate(d1, id, "A")
        totalCostIn(d, p) == (CHOOSE q \in d.product : q.id = p.id).totalCost
    IN updateRawMaterialSchema(body)
       => \A r \in recalculateProductCostsForMaterial(d1, id, "A", TRUE) :
            \/ \A p \in affected : totalCostIn(r.db, p) = p.totalCost
            \/ \A p \in affected : totalCostIn(r.db, p) = DerivedTotalCost(d1, p)

\* the failed cost update C6 and C9 are about has happened: the reply is
\* the internal error, and of two products that reference the material
\* one carries the total of the new cost and the other does not
C6_Witness ==
  /\ last.op = "updateRawMaterial"
  /\ last.resp = InternalServerError
  /\ \E p, q \in db.product :
       /\ \E i \in IngredientsOf(db, p.id) : i.rawMaterialId = last.id
       /\ \E i \in IngredientsOf(db, q.id) : i.rawMaterialId = last.id
       /\ p.totalCost = DerivedTotalCost(db, p)
       /\ q.totalCost # DerivedTotalCost(db, q)

\* C9: a cost update that fails after its cost write replies an error and
\* leaves the store as it was before the call.
C9_FailedUpdateRolledBack ==
  \A id \in RawMaterialIds : \A body \in CostBodies :
    \A o \in updateRawMaterialHandler(db, "A", id, body, TRUE) :
      o.resp.status >= 500 => o.db = db

\* C9 happens: the update replied the internal error and the raw material
\* carries a cost that no product total reflects
C9_Witness ==
  /\ last.op = "updateRawMaterial"
  /\ last.resp = InternalServerError
  /\ \E m \in db.rawMaterial : m.id = last.id
  /\ \E p \in db.product :
       /\ \E i \in IngredientsOf(db, p.id) : i.rawMaterialId = last.id
       /\ p.totalCost # DerivedTotalCost(db, p)
  /\ \A p \in db.product :
       (\E i \in IngredientsOf(db, p.id) : i.rawMaterialId = last.id)
       => p.totalCost # DerivedTotalCost(db, p)

\* what a tenant owns: its raw materials, its products (with additionalCost
\* and totalCost) and the ingredient links of its products
RowsOf(d, userId) ==
  [rawMaterial |-> {m \in d.rawMaterial : m.userId = userId},
   product |-> {p \in d.product : p.userId = userId},
   productIngredient |->
     {i \in d.productIngredient :
        \E p \in d.product : p.id = i.productId /\ p.userId = userId}]

\* every outcome of a raw-material or product operation of the claim that
\* the caller can issue on the revision reading req.user
LegacyOutcomes(d, user) ==
  UNION ({createRawMaterial(d, user, body) : body \in RawMaterialBodies(user)}
         \cup {updateRawMaterial(d, user, id, body) :
                 id \in RawMaterialIds, body \in CostBodies}
         \cup {deleteRawMaterial(d, user, id) : id \in RawMaterialIds}
         \cup {createProduct_part006(d, user, body) : body \in LegacyProductBodies(user)}
         \cup {deleteProductHandler_part006(d, user, id) : id \in ProductIds})

\* the same for the revision with the recalculation trigger
TriggerOutcomes(d, user) ==
  UNION ({createRawMaterialHandler(d, user, body) : body \in RawMaterialBodies(user)}
         \cup {updateRawMaterialHandler(d, user, id, body, FALSE) :
                 id \in RawMaterialIds, body \in CostBodies}
         \cup {deleteRawMaterialHandler(d, user, id) : id \in RawMaterialIds}
         \cup {createProductHandler(d, user, body) : body \in ProductBodies(user)}
         \cup {deleteProductHandler(d, user, id) : id \in ProductIds})

C7_TenantIsolationTrigger ==
  \A user \in Users : \A other \in Users \ {user} :
    \A o \in TriggerOutcomes(db, user) : RowsOf(o.db, other) = RowsOf(db, other)

Quiescent ==
  \A r \in DOMAIN requests :
    requests[r].pc \in {"idle", "done"} /\ requests[r].updates = {}

\* C1: in every state in which all mutations so far are committed, every
\* stored product carries totalCost = additionalCost + sum over its links of
\* percentage/100 x the stored cost of the linked raw material.
C1_TotalCostInvariant ==
  Quiescent => \A p \in db.product : p.totalCost = DerivedTotalCost(db, p)

\* the invariant of C1 in the states of one request at a time
C1_TotalCostInvariantSequential ==
  \A p \in db.product : p.totalCost = DerivedTotalCost(db, p)

\* C1 is broken: nothing is in flight, both raw materials carry a new
\* cost, and Cake carries a total of the old Sugar cost or of the old
\* Flour cost
C1_Witness ==
  /\ Quiescent
  /\ requests # <<>>
  /\ \A m \in db.rawMaterial : m.cost # RawMaterialById(ConcurrentStore, m.id).cost
  /\ \E p \in db.product : p.totalCost # DerivedTotalCost(db, p)

\* C5: when two cost updates of two different raw materials of one product
\* have both returned and nothing of them is left in flight, the product's
\* totalCost is the value computed from both new costs.
C5_NoLostUpdate ==
  \A r1, r2 \in DOMAIN requests :
    (/\ r1 # r2
     /\ requests[r1].replied \in {200, 500} /\ requests[r2].replied \in {200, 500}
     /\ requests[r1].id # requests[r2].id
     /\ Quiescent)
    => \A p \in db.product :
         (/\ \E i \in IngredientsOf(db, p.id) : i.rawMaterialId = requests[r1].id
          /\ \E i \in IngredientsOf(db, p.id) : i.rawMaterialId = requests[r2].id)
         => p.totalCost = DerivedTotalCost(db, p)

\* C5 is broken: both updates have replied, both costs are stored, and the
\* product of both raw materials carries a total that is not the one of the
\* stored costs
C5_Witness ==
  \E r1, r2 \in DOMAIN requests :
    /\ requests[r1].replied \in {200, 500} /\ requests[r2].replied \in {200, 500}
    /\ RawMaterialById(db, requests[r1].id).cost = requests[r1].cost
    /\ RawMaterialById(db, requests[r2].id).cost = requests[r2].cost
    /\ requests[r1].id # requests[r2].id
    /\ Quiescent
    /\ \E p \in db.product :
         /\ \E i \in IngredientsOf(db, p.id) : i.rawMaterialId = requests[r1].id
         /\ \E i \in IngredientsOf(db, p.id) : i.rawMaterialId = requests[r2].id
         /\ p.totalCost # DerivedTotalCost(db, p)

\* -------------------------------------------------------------------------
\* C11: while a delete of a raw material races a product creation, no step
\* removes an ingredient link, and no raw material is removed while a stored
\* ingredient link references it (SpecDeleteRace has no product deletion, so
\* every removal of a link is the side effect of the raw material's delete)
C11_DeleteNeverDropsLinks ==
  [][/\ db.productIngredient \subseteq db'.productIngredient
     /\ \A m \in db.rawMaterial \ db'.rawMaterial :
          ~\E i \in db.productIngredient : i.rawMaterialId = m.id]_vars

\* the product was created with a link to the raw material, and the delete
\* of that raw material, which had counted no usage, went through
C11_Witness ==
  /\ DOMAIN requests = {"delete", "create"}
  /\ requests.create.replied = 201
  /\ requests.delete.replied = 204
  /\ \E k \in 1..Len(requests.create.body.ingredients) :
       requests.create.body.ingredients[k].rawMaterialId = requests.delete.id
  /\ \E p \in db.product : IngredientsOf(db, p.id) = {}

\* -------------------------------------------------------------------------
\* the delete of raw material id, owned by userId, went through from store d
\* with outcome o: the row and every link to it are gone, and every product
\* that linked it carries additionalCost + the cost of its remaining links
CascadeDeleteRecalculated(d, userId, id, o) ==
  (o.resp.status = 200 /\ OwnedBy(d, userId, id) # {}) =>
    /\ ~\E m \in o.db.rawMaterial : m.id = id
    /\ ~\E i \in o.db.productIngredient : i.rawMaterialId = id
    /\ \A p \in o.db.product :
         (\E i \in d.productIngredient : i.rawMaterialId = id /\ i.productId = p.id)
           => p.totalCost = DerivedTotalCost(o.db, p)

C12_CascadeDeleteRecalculatesPart007 ==
  \A userId \in Users, id \in RawMaterialIds :
    \A o \in deleteRawMaterial_part007(db, userId, id) :
      CascadeDeleteRecalculated(db, userId, id, o)

NameOnlyAtStake(d, userId, body) ==
  /\ createProductSchema(body)
  /\ ~percentagesOff(body.ingredients)
  /\ \A k \in 1..Len(body.ingredients) :
       /\ OwnedBy(d, userId, body.ingredients[k].rawMaterialId) # {}
       /\ \A j \in 1..Len(body.ingredients) :
            j # k => body.ingredients[j].rawMaterialId # body.ingredients[k].rawMaterialId

\* outcome o of creating body for userId from store d: a name the tenant
\* already has is answered 409 and nothing is stored; a name only another
\* tenant has is no conflict
DuplicateNameConflict(d, userId, body, o) ==
  NameOnlyAtStake(d, userId, body) =>
    IF \E p \in d.product : p.name = body.name /\ p.userId = userId
    THEN o.resp.status = 409 /\ o.db = d
    ELSE o.resp.status = 201

\* C13: CreateProduct with a name the tenant already has is rejected with a
\* conflict error, not a generic internal error, and stores nothing; the
\* same name of another tenant is no conflict (products.controller.ts:215-258)
C13_DuplicateNameConflict ==
  \A userId \in Users :
    \A body \in ProductBodies(userId) :
      \A o \in createProductHandler(db, userId, body) :
        DuplicateNameConflict(db, userId, body, o)

\* the same for createProduct of part_005:75-214
C13_DuplicateNameConflictPart005 ==
  \A userId \in Users :
    \A body \in ProductBodies(userId) :
      \A o \in createProduct(db, userId, body) :
        DuplicateNameConflict(db, userId, body, o)

\* a create was answered with the generic 500 at a store where the caller
\* has a product whose name, sent again with a sound body, gets that answer
C13_Witness ==
  /\ last.op = "createProduct"
  /\ last.resp = InternalServerError
  /\ \E body \in ProductBodies(last.userId) :
       /\ NameOnlyAtStake(db, last.userId, body)
       /\ \E p \in db.product : p.name = body.name /\ p.userId = last.userId
       /\ createProductHandler(db, last.userId, body) = {Outcome(db, InternalServerError)}

\* -------------------------------------------------------------------------
\* C14: of the creations of one (tenant, name) that passed validation and
\* were answered, exactly one succeeded and every other was answered with a
\* conflict, also when their existence checks both ran before either
\* insert; at most one raw material is stored for a (tenant, name), and only
\* a successful creation stores one (raw-materials.controller.ts:5-28)
C14_DuplicateCreateConflict ==
  /\ \A m1, m2 \in db.rawMaterial :
       (m1.name = m2.name /\ m1.userId = m2.userId) => m1 = m2
  /\ \A m \in db.rawMaterial :
       \E r \in DOMAIN requests : requests[r].name = m.name /\ requests[r].replied = 201
  /\ \A r1, r2 \in DOMAIN requests :
       (/\ r1 # r2
        /\ requests[r1].name = requests[r2].name
        /\ requests[r1].replied \notin {0, 400}
        /\ requests[r2].replied \notin {0, 400})
         => \/ requests[r1].replied = 201 /\ requests[r2].replied = 409
            \/ requests[r1].replied = 409 /\ requests[r2].replied = 201

\* two creations of one name were both past the existence check when the
\* first insert ran: one was answered 201, the other 500
C14_Witness ==
  \E r1, r2 \in DOMAIN requests :
    /\ r1 # r2
    /\ requests[r1].name = requests[r2].name
    /\ requests[r1].replied = 201
    /\ requests[r2].replied = 500
    /\ last.resp = InternalServerError
    /\ Cardinality({m \in db.rawMaterial : m.name = requests[r1].name}) = 1

\* -------------------------------------------------------------------------
\* the replies among a set of outcomes
Replied(outcomes) == {o.resp : o \in outcomes}

\* a raw material / product stored for a tenant other than userId
ForeignRawMaterial(d, userId, id) ==
  \E m \in d.rawMaterial : m.id = id /\ m.userId # userId

ForeignProduct(d, userId, id) ==
  \E p \in d.product : p.id = id /\ p.userId # userId

\* C15: UpdateCost and Delete of a raw material and DeleteProduct answer an
\* id stored for another tenant exactly as they answer an id that is not
\* stored at all (0 is an id no row ever has), in every store, also when the
\* other tenant's raw material is linked by products
\* (raw-materials.controller.ts:44-111, products.controller.ts:280-298)
C15_ForeignLikeAbsent ==
  \A userId \in Users :
    /\ \A id \in RawMaterialIds, absent \in RawMaterialIds \cup {0} :
         (/\ ForeignRawMaterial(db, userId, id)
          /\ ~\E m \in db.rawMaterial : m.id = absent)
           => /\ Replied(deleteRawMaterialHandler(db, userId, id))
                   = Replied(deleteRawMaterialHandler(db, userId, absent))
              /\ \A body \in CostBodies :
                   Replied(updateRawMaterialHandler(db, userId, id, body, FALSE))
                     = Replied(updateRawMaterialHandler(db, userId, absent, body, FALSE))
    /\ \A id \in ProductIds, absent \in ProductIds \cup {0} :
         (/\ ForeignProduct(db, userId, id)
          /\ ~\E p \in db.product : p.id = absent)
           => Replied(deleteProductHandler(db, userId, id))
                = Replied(deleteProductHandler(db, userId, absent))

\* the same for the handlers of part_007:189-379 and part_005:220-272
C15_ForeignLikeAbsentPart007 ==
  \A userId \in Users :
    /\ \A id \in RawMaterialIds, absent \in RawMaterialIds \cup {0} :
         (/\ ForeignRawMaterial(db, userId, id)
          /\ ~\E m \in db.rawMaterial : m.id = absent)
           => /\ Replied(deleteRawMaterial_part007(db, userId, id))
                   = Replied(deleteRawMaterial_part007(db, userId, absent))
              /\ \A body \in CostBodies :
                   Replied(updateRawMaterial_part007(db, userId, id, body))
                     = Replied(updateRawMaterial_part007(db, userId, absent, body))
    /\ \A id \in ProductIds, absent \in ProductIds \cup {0} :
         (/\ ForeignProduct(db, userId, id)
          /\ ~\E p \in db.product : p.id = absent)
           => Replied(deleteProductHandler_part005(db, userId, id))
                = Replied(deleteProductHandler_part005(db, userId, absent))

\* a tenant asked to delete another tenant's raw material that products
\* link, and was told that it is in use
C15_Witness ==
  /\ last.op = "deleteRawMaterial"
  /\ last.resp.status = 400
  /\ ForeignRawMaterial(db, last.userId, last.id)
  /\ \E i \in db.productIngredient : i.rawMaterialId = last.id

\* -------------------------------------------------------------------------
\* outcome o of deleting raw material id for userId from store d: an id the
\* tenant does not own is answered not-found and the store is as it was
UnownedDeleteRejected(d, userId, id, o) ==
  OwnedBy(d, userId, id) = {} => (o.resp.status = 404 /\ o.db = d)

C16_UnownedDeleteRejectedPart007 ==
  \A userId \in Users, id \in RawMaterialIds :
    \A o \in deleteRawMaterial_part007(db, userId, id) :
      UnownedDeleteRejected(db, userId, id, o)

RejectedUpdateChangesNothing(d, userId, id, body, o) ==
  (body.cost <= 0 \/ OwnedBy(d, userId, id) = {}) =>
    (o.resp.status \in {400, 404} /\ o.db = d)

C17_RejectedUpdateChangesNothingPart007 ==
  \A userId \in Users, id \in RawMaterialIds, body \in CostBodies :
    \A o \in updateRawMaterial_part007(db, userId, id, body) :
      RejectedUpdateChangesNothing(db, userId, id, body, o)

C18_DeleteProductFrame ==
  /\ \A i \in db.productIngredient : \E p \in db.product : p.id = i.productId
  /\ \A userId \in Users, id \in ProductIds :
       \A o \in deleteProductHandler(db, userId, id) :
         /\ \A i \in o.db.productIngredient : \E p \in o.db.product : p.id = i.productId
         /\ o.resp.status = 204 =>
              /\ o.db.rawMaterial = db.rawMaterial
              /\ o.db.product = {p \in db.product : p.id # id}
              /\ o.db.productIngredient = {i \in db.productIngredient : i.productId # id}

\* a product was deleted while another product with ingredient links is
\* stored
C18_Witness ==
  /\ last.op = "deleteProduct"
  /\ last.resp.status = 204
  /\ ~\E p \in db.product : p.id = last.id
  /\ \E p \in db.product : IngredientsOf(db, p.id) # {}

\* -------------------------------------------------------------------------
\* outcome o of deleting product id for userId from store d: an id the
\* tenant has no product for is answered not-found and the store is as it was
UnownedProductDeleteRejected(d, userId, id, o) ==
  (~\E p \in d.product : p.id = id /\ p.userId = userId)
    => (o.resp.status = 404 /\ o.db = d)

C19_UnownedProductDeleteRejectedTrigger ==
  \A userId \in Users, id \in ProductIds :
    \A o \in deleteProductHandler(db, userId, id) :
      UnownedProductDeleteRejected(db, userId, id, o)

\* the same for deleteProductHandler of part_005:220-272, whose deletion of
\* the links is rolled back with the transaction
C19_UnownedProductDeleteRejectedPart005 ==
  \A userId \in Users, id \in ProductIds :
    \A o \in deleteProductHandler_part005(db, userId, id) :
      UnownedProductDeleteRejected(db, userId, id, o)

ClientTotalCostStored(d, o, totalCost) ==
  {p \in o.db.product \ d.product :
     p.totalCost = totalCost /\ p.totalCost # DerivedTotalCost(o.db, p)}

C20_TotalCostDerivedOnlyTrigger ==
  \A userId \in Users :
    \A body \in ProductBodies(userId), totalCost \in {0, 110} :
      \A o \in createProductHandler(db, userId,
                  [name |-> body.name, additionalCost |-> body.additionalCost,
                   ingredients |-> body.ingredients, totalCost |-> totalCost]) :
        ClientTotalCostStored(db, o, totalCost) = {}

RowAgrees(row) ==
  row.product.totalCost
    = row.product.additionalCost
      + SumSet(row.ingredients,
               [ing \in row.ingredients |->
                  (ing.percentage * ing.rawMaterial.cost) \div 100])

\* C21: in every ListProducts reply, also one produced while an UpdateCost
\* is between its cost write and its recalculation write, every returned
\* product's totalCost equals its returned additionalCost + the sum over its
\* returned ingredients of percentage/100 x the returned raw-material cost
\* (getProductsHandler of products.controller.ts:260-278)
C21_ListAgreesWithItself ==
  last.op = "getProducts" => \A row \in last.resp : RowAgrees(row)

\* the same for listProducts of part_005:14-72, read at any store the cost
\* updates pass through
C21_ListAgreesWithItselfPart005 ==
  \A userId \in Users : \A row \in listProducts(db, userId) : RowAgrees(row)

\* the list was read while a cost update had written the cost and had not
\* yet written the totals, and a returned row disagrees with itself
C21_Witness ==
  /\ last.op = "getProducts"
  /\ \E r \in DOMAIN requests : requests[r].pc = "findMany"
  /\ \E row \in last.resp : ~RowAgrees(row)
  /\ last.resp = getProductsHandler(db, "A")

\* -------------------------------------------------------------------------
\* C22: right after a run of the recalculation trigger for (rawMaterialId,
\* tenant), a second run for the same pair, with no change in between,
\* leaves every product, its totalCost and its additionalCost as the first
\* run left them (all three recalculateProductCostsForMaterial)
C22_RecalculationIdempotent ==
  /\ last.op = "recalculateProductCostsForMaterial" =>
       \A r \in recalculateProductCostsForMaterial(db, last.id, last.userId, FALSE) :
         r.db.product = db.product
  /\ last.op = "recalculateProductCostsForMaterial_rawMaterials" =>
       recalculateProductCostsForMaterial_rawMaterials(db, last.id, last.userId).product
         = db.product
  /\ last.op = "recalculateProductCostsForMaterial_part007" =>
       recalculateProductCostsForMaterial_part007(db, last.id, last.userId).product
         = db.product

\* the trigger of products.controller.ts has just run for a raw material
\* whose cost had been written, and gave a product a total it did not have
C22_Witness ==
  /\ last.op = "recalculateProductCostsForMaterial"
  /\ \E p \in productsToUpdate(db, last.id, last.userId) :
       /\ p.totalCost = DerivedTotalCost(db, p)
       /\ \A q \in LegacyStore.product : q.id = p.id => q.totalCost # p.totalCost

\* -------------------------------------------------------------------------
\* a body that validation has to stop: empty name, negative additionalCost,
\* no ingredient, or a percentage outside (0, 100]
MustBeStopped(body) ==
  \/ body.name = ""
  \/ body.additionalCost < 0
  \/ body.ingredients = <<>>
  \/ \E k \in 1..Len(body.ingredients) :
       body.ingredients[k].percentage <= 0 \/ body.ingredients[k].percentage > 100

\* C23: CreateProduct with an empty name, a negative additionalCost, an
\* empty ingredient list or a percentage outside (0, 100] is answered with a
\* validation error and stores nothing; so every stored ingredient link has
\* 0 < percentage <= 100 and every stored product has additionalCost >= 0
\* (createProductSchema in front of createProductHandler, and createProduct
\* of part_005)
C23_InvalidProductRejected ==
  /\ \A body \in AnyProductBodies :
       MustBeStopped(body) =>
         \A o \in createProductHandler(db, "A", body) \cup createProduct(db, "A", body) :
           o.resp.status = 400 /\ o.db = db
  /\ \A i \in db.productIngredient : 0 < i.percentage /\ i.percentage <= 100
  /\ \A p \in db.product : p.additionalCost >= 0

\* a body whose only flaw is a percentage of 0 next to one of 100 was
\* submitted and answered 400 while a product is stored
C23_Witness ==
  /\ last.op \in {"createProductHandler", "createProduct"}
  /\ last.resp.status = 400
  /\ db.product # {}
  /\ requests.name # ""
  /\ requests.additionalCost >= 0
  /\ totalPercentage(requests.ingredients) = 100
  /\ \E k \in 1..Len(requests.ingredients) : requests.ingredients[k].percentage = 0
  /\ \A k \in 1..Len(requests.ingredients) :
       \A j \in 1..Len(requests.ingredients) :
         j # k => requests.ingredients[j].rawMaterialId # requests.ingredients[k].rawMaterialId

\* -------------------------------------------------------------------------
\* reply is the list of userId's products over store d: every product of
\* the tenant once and no other, in ascending order of name, each with its
\* ingredient links and their raw materials
ListsOwnedByName(d, userId, reply) ==
  /\ {reply[k].product.id : k \in 1..Len(reply)}
       = {p.id : p \in {q \in d.product : q.userId = userId}}
  /\ \A j, k \in 1..Len(reply) :
       j < k => IndexIn(Alphabetical, reply[j].product.name)
                  < IndexIn(Alphabetical, reply[k].product.name)
  /\ \A k \in 1..Len(reply) :
       reply[k].ingredients
         = {[percentage |-> i.percentage,
             rawMaterial |-> RawMaterialById(d, i.rawMaterialId)] :
              i \in IngredientsOf(d, reply[k].product.id)}

\* C24: ListProducts returns exactly the products of the tenant, ordered by
\* name ascending, each with its ingredient links and their raw materials
\* (getProductsHandler of products.controller.ts:260-278 and listProducts
\* of part_005:14-37)
C24_ListOwnedByName ==
  last.op \in {"getProductsHandler", "listProducts"} =>
    ListsOwnedByName(db, last.userId, last.resp)

\* the same for getProductsHandler alone
C24_ListOwnedByNameTrigger ==
  last.op = "getProductsHandler" => ListsOwnedByName(db, last.userId, last.resp)

\* listProducts returned Cake, created last, before Bread
C24_Witness ==
  /\ last.op = "listProducts"
  /\ Len(last.resp) = 2
  /\ last.resp[1].product.name = "Cake"
  /\ last.resp[2].product.name = "Bread"
  /\ \E p \in db.product : p.userId # last.userId

\* -------------------------------------------------------------------------
\* C25: when no product of the tenant links the raw material, the
\* recalculation trigger updates no product and raises no error, so an
\* UpdateCost of a raw material of the tenant that no product links
\* succeeds and changes the cost of that raw material and nothing else
\* (products.controller.ts:190-192, part_007:115-119)
C25_UnreferencedUpdateWritesCostOnly ==
  \A userId \in Users, id \in RawMaterialIds :
    productsToUpdate(db, id, userId) = {} =>
      /\ recalculateProductCostsForMaterial(db, id, userId, FALSE)
           = {[db |-> db, ok |-> TRUE]}
      /\ recalculateProductCostsForMaterial_part007(db, id, userId) = db
      /\ \A body \in CostBodies :
           (updateRawMaterialSchema(body) /\ OwnedBy(db, userId, id) # {}) =>
             \A o \in updateRawMaterialHandler(db, userId, id, body, FALSE)
                        \cup updateRawMaterial_part007(db, userId, id, body) :
               /\ o.resp.status = 200
               /\ o.db = rawMaterialUpdateMany(db, id, userId, body.cost)
               /\ o.db.product = db.product
               /\ o.db.productIngredient = db.productIngredient

\* a cost update of a raw material that no product links was answered 200
\* while the tenant has a product
C25_Witness ==
  /\ last.op = "updateRawMaterial"
  /\ last.resp.status = 200
  /\ OwnedBy(db, last.userId, last.id) # {}
  /\ productsToUpdate(db, last.id, last.userId) = {}
  /\ \E p \in db.product : p.userId = last.userId

\* -------------------------------------------------------------------------
\* an ingredient list that names a raw material twice
NamesTwice(ingredients) ==
  \E j, k \in 1..Len(ingredients) :
    j # k /\ ingredients[j].rawMaterialId = ingredients[k].rawMaterialId

\* C26: no product ever has two ingredient links to the same raw material,
\* and a CreateProduct whose list names a raw material twice is rejected
\* and stores neither the product nor any of its links
\* (ProductIngredient_productId_rawMaterialId_key under the nested create of
\* products.controller.ts:236-252 and part_005:177-198)
C26_NoDuplicateLinks ==
  /\ \A i, j \in db.productIngredient :
       (i.productId = j.productId /\ i.rawMaterialId = j.rawMaterialId) => i = j
  /\ \A userId \in Users :
       \A body \in ProductBodies(userId) :
         NamesTwice(body.ingredients) =>
           \A o \in createProductHandler(db, userId, body) \cup createProduct(db, userId, body) :
             o.resp.status >= 400 /\ o.db = db

\* a create was answered 500 at a store where a body that is sound but for
\* naming one of the caller's raw materials twice gets exactly that answer
C26_Witness ==
  /\ last.op = "createProduct"
  /\ last.resp = InternalServerError
  /\ \E body \in ProductBodies(last.userId) :
       /\ NamesTwice(body.ingredients)
       /\ ~percentagesOff(body.ingredients)
       /\ \A k \in 1..Len(body.ingredients) :
            OwnedBy(db, last.userId, body.ingredients[k].rawMaterialId) # {}
       /\ ~\E p \in db.product : p.name = body.name /\ p.userId = last.userId
       /\ createProductHandler(db, last.userId, body) = {Outcome(db, InternalServerError)}

\* -------------------------------------------------------------------------
\* C27: when two cost updates of the same raw material have both returned
\* 200 and nothing of them is left in flight, every product that links the
\* raw material carries the total computed from the cost that is stored for
\* it in the end, never from the overwritten one.
C27_SameMaterialSerialized ==
  \A r1, r2 \in DOMAIN requests :
    (/\ r1 # r2
     /\ requests[r1].replied = 200 /\ requests[r2].replied = 200
     /\ requests[r1].id = requests[r2].id
     /\ Quiescent)
    => \A p \in db.product :
         (\E i \in IngredientsOf(db, p.id) : i.rawMaterialId = requests[r1].id)
         => p.totalCost = DerivedTotalCost(db, p)

\* C27 is broken: both updates of one raw material, with different costs,
\* have replied 200, the cost of the second is the one stored, and a product
\* of the raw material carries the total of the cost of the first
C27_Witness ==
  \E r1, r2 \in DOMAIN requests :
    /\ r1 # r2
    /\ requests[r1].replied = 200 /\ requests[r2].replied = 200
    /\ requests[r1].id = requests[r2].id
    /\ requests[r1].cost # requests[r2].cost
    /\ RawMaterialById(db, requests[r2].id).cost = requests[r2].cost
    /\ Quiescent
    /\ \E p \in db.product :
         /\ \E i \in IngredientsOf(db, p.id) : i.rawMaterialId = requests[r1].id
         /\ p.totalCost # DerivedTotalCost(db, p)
         /\ p.totalCost =
              DerivedTotalCost([db EXCEPT !.rawMaterial =
                 {IF m.id = requests[r1].id THEN [m EXCEPT !.cost = requests[r1].cost]
                  ELSE m : m \in db.rawMaterial}], p)

\* -------------------------------------------------------------------------
\* C28: when a product creation and a cost update of a raw material the
\* product links have both returned, the creation with 201 and the update
\* with 200, the created product's stored totalCost is the one computed from
\* the raw material's new cost.
C28_CreatedWithNewCost ==
  (/\ requests.create.replied = 201
   /\ requests.update.replied = 200
   /\ requests.update.updates = {})
  => \A p \in db.product :
       (/\ p.name = requests.create.body.name
        /\ \E i \in IngredientsOf(db, p.id) : i.rawMaterialId = requests.update.id)
       => p.totalCost = DerivedTotalCost(db, p)

\* C28 is broken: both have returned, the new cost is stored, and the
\* created product carries the total of the cost the creation read before
\* the update
C28_Witness ==
  /\ requests.create.replied = 201
  /\ requests.update.replied = 200
  /\ requests.update.updates = {}
  /\ RawMaterialById(db, requests.update.id).cost = requests.update.cost
  /\ \E p \in db.product :
       /\ p.name = requests.create.body.name
       /\ \E i \in IngredientsOf(db, p.id) : i.rawMaterialId = requests.update.id
       /\ p.totalCost = DerivedTotalCost([db EXCEPT !.rawMaterial = RaceStore.rawMaterial], p)
       /\ p.totalCost # DerivedTotalCost(db, p)

\* -------------------------------------------------------------------------
\* what the recalculation for (rawMaterialId, userId) may change from d to
\* d2: the totalCost of userId's products that link rawMaterialId
TotalCostOnly(d, d2, rawMaterialId, userId) ==
  /\ d2.rawMaterial = d.rawMaterial
  /\ d2.productIngredient = d.productIngredient
  /\ {q.id : q \in d2.product} = {p.id : p \in d.product}
  /\ \A p \in d.product :
       \E q \in d2.product :
         /\ q.id = p.id /\ q.name = p.name /\ q.userId = p.userId
         /\ q.additionalCost = p.additionalCost
         /\ q.totalCost # p.totalCost =>
              /\ p.userId = userId
              /\ \E i \in IngredientsOf(d, p.id) : i.rawMaterialId = rawMaterialId

\* C29: the recalculation for (rawMaterialId, tenant) writes only the
\* totalCost of the tenant's products that link rawMaterialId; every
\* product's name, additionalCost and links, every raw material, and the
\* totalCost of every other product stay as they were (in each of the three
\* recalculation functions).
C29_TriggerWritesTotalCostOnly ==
  \A userId \in Users, id \in RawMaterialIds :
    /\ \A r \in recalculateProductCostsForMaterial(db, id, userId, FALSE) :
         TotalCostOnly(db, r.db, id, userId)
    /\ TotalCostOnly(db, recalculateProductCostsForMaterial_part007(db, id, userId),
                     id, userId)
    /\ TotalCostOnly(db, recalculateProductCostsForMaterial_rawMaterials(db, id, userId),
                     id, userId)

\* the frame of C29 in the functions of products.controller.ts and part_007
C29_TriggerWritesTotalCostOnlyElsewhere ==
  \A userId \in Users, id \in RawMaterialIds :
    /\ \A r \in recalculateProductCostsForMaterial(db, id, userId, FALSE) :
         TotalCostOnly(db, r.db, id, userId)
    /\ TotalCostOnly(db, recalculateProductCostsForMaterial_part007(db, id, userId),
                     id, userId)

\* C29 is broken: the function of raw-materials.controller.ts ran last for
\* tenant A and tenant B's Cake has lost its additionalCost
C29_Witness ==
  /\ last.op = "recalculateProductCostsForMaterial_rawMaterials"
  /\ last.userId = "A"
  /\ \E p \in db.product :
       /\ p.userId = "B"
       /\ \E i \in IngredientsOf(db, p.id) : i.rawMaterialId = last.id
       /\ p.additionalCost = 0
       /\ \E q \in LegacyStore.product : q.id = p.id /\ q.additionalCost # 0

\* -------------------------------------------------------------------------
\* the percentages of the stored links of product p, summed
storedPercentage(d, p) ==
  SumSet(IngredientsOf(d, p.id), [i \in IngredientsOf(d, p.id) |-> i.percentage])

====
